---------------------------- MODULE Spec2Model ----------------------------
(***************************************************************************)
(* Sort-merge join stream of datafusion/physical-plan/src/joins/           *)
(* sort_merge_join.rs (SortMergeJoinStream and its helpers).               *)
(*                                                                         *)
(* Record batches are kept column-wise, as in Arrow: a batch is a sequence *)
(* of columns and a column a sequence of values.  Row and batch indices    *)
(* are 0-based as in the source; a sequence position is index + 1.         *)
(***************************************************************************)
EXTENDS Integers, Sequences, FiniteSets, TLC

\* The invalid (null) slot of a nullable integer array or of an Option<usize>.
NULL == -1

(***************************************************************************)
(* Bounds of the explored inputs.                                          *)
(***************************************************************************)
MaxStreamedRows == 3
MaxBufferedRows == 3
MaxKey == 2
MaxBatchSize == 2
\* Rows of each input in the executions with a residual filter.
MaxFilteredRows == 2
\* Rows of each input in the executions over inputs of different widths.
MaxWideRows == 1
MaxSpillRows == 2
MaxPartitions == 2
\* Tentative pairs, and rows after them, in a call of get_corrected_filter_mask.
MaxPairs == 4
MaxPadding == 1
\* Key columns in a call of compare_join_arrays or is_join_arrays_equal.
MaxKeyColumns == 2
\* Buffered batches a pair of append_output_pair may refer to.
MaxBufferedBatches == 2
MaxSteps == 40

(***************************************************************************)
(* Arrow primitives used by the operator.                                  *)
(***************************************************************************)
\* A nullable boolean slot: "T"/"F" are valid; "N0"/"N1" are null slots whose
\* value bit is clear/set (value() does not look at validity).
IsNullB(m) == m \in {"N0", "N1"}
ValueB(m) == m \in {"T", "N1"}

\* UInt64Array::value of a slot: builders zero the value of a null slot.
ValueU(x) == IF x = NULL THEN 0 ELSE x

Range(n) == 1..n

num_rows(batch) == IF Len(batch) = 0 THEN 0 ELSE Len(batch[1])

new_empty(ncols) == [c \in Range(ncols) |-> <<>>]

\* A take that reads the indices from the last to the first.
take_backwards(column, indices) ==
    [i \in Range(Len(indices)) |->
        IF indices[Len(indices) + 1 - i] = NULL THEN NULL
        ELSE column[indices[Len(indices) + 1 - i] + 1]]

take(column, indices) ==
    [i \in Range(Len(indices)) |->
        IF indices[i] = NULL THEN NULL ELSE column[indices[i] + 1]]

new_null_array(size) == [i \in Range(size) |-> NULL]

is_not_null(indices) == [i \in Range(Len(indices)) |-> indices[i] # NULL]

RECURSIVE FilterSeq(_, _)
FilterSeq(column, mask) ==
    IF Len(column) = 0 \/ Len(mask) = 0 THEN <<>>
    ELSE (IF mask[1] = "T" THEN <<column[1]>> ELSE <<>>)
            \o FilterSeq(Tail(column), Tail(mask))

\* arrow filter_record_batch: keeps the rows whose mask slot is valid and true.
filter_record_batch(batch, mask) ==
    [c \in Range(Len(batch)) |-> FilterSeq(batch[c], mask)]

\* compute::not: nulls stay null.
not(mask) ==
    [i \in Range(Len(mask)) |->
        IF mask[i] = "T" THEN "F" ELSE IF mask[i] = "F" THEN "T" ELSE "N0"]

\* A preparation that makes a null slot valid with the value found under it.
prep_null_mask_keeps_bit(mask) ==
    [i \in Range(Len(mask)) |-> IF ValueB(mask[i]) THEN "T" ELSE "F"]

\* compute::prep_null_mask_filter: null slots become valid false.
prep_null_mask_filter(mask) ==
    [i \in Range(Len(mask)) |-> IF mask[i] = "T" THEN "T" ELSE "F"]

null_count(arr) == Cardinality({i \in Range(Len(arr)) : arr[i] = NULL})

false_count(mask) == Cardinality({i \in Range(Len(mask)) : mask[i] = "F"})

RECURSIVE ConcatCol(_, _)
ConcatCol(batches, c) ==
    IF Len(batches) = 0 THEN <<>>
    ELSE batches[1][c] \o ConcatCol(Tail(batches), c)

\* A concatenation that puts the later batches first.
concat_newest_first(ncols, batches) ==
    [c \in Range(ncols) |->
        ConcatCol([i \in Range(Len(batches)) |-> batches[Len(batches) + 1 - i]], c)]

\* concat_batches(schema, batches): the schema gives the number of columns.
concat_batches(ncols, batches) ==
    [c \in Range(ncols) |-> ConcatCol(batches, c)]

\* RecordBatch::try_new accepts the columns iff there is one per schema field
\* and all have the same length.
try_new_ok(ncols, columns) ==
    /\ Len(columns) = ncols
    /\ \A c \in Range(Len(columns)) : Len(columns[c]) = Len(columns[1])

\* RecordBatch::project
project(batch, n) == [c \in Range(n) |-> batch[c]]

next_power_of_two(n) ==
    IF n <= 1 THEN 1 ELSE IF n <= 2 THEN 2 ELSE IF n <= 4 THEN 4 ELSE 8

(***************************************************************************)
(* Key comparator.                                                         *)
(***************************************************************************)
reverse(o) == IF o = "Less" THEN "Greater" ELSE IF o = "Greater" THEN "Less" ELSE o

partial_cmp(a, b) == IF a < b THEN "Less" ELSE IF a > b THEN "Greater" ELSE "Equal"

\* A comparison in which two nulls are equal under either null equality.
compare_nulls_equal(l, r, so, null_eq) ==
    IF l # NULL /\ r # NULL
    THEN IF so.descending THEN reverse(partial_cmp(l, r)) ELSE partial_cmp(l, r)
    ELSE IF l = NULL /\ r # NULL
    THEN IF so.nulls_first THEN "Less" ELSE "Greater"
    ELSE IF l # NULL /\ r = NULL
    THEN IF so.nulls_first THEN "Greater" ELSE "Less"
    ELSE "Equal"

\* A comparison in which descending reverses the place of the nulls too.
compare_nulls_reversed(l, r, so, null_eq) ==
    IF l # NULL /\ r # NULL
    THEN IF so.descending THEN reverse(partial_cmp(l, r)) ELSE partial_cmp(l, r)
    ELSE IF l = NULL /\ r # NULL
    THEN IF so.nulls_first # so.descending THEN "Less" ELSE "Greater"
    ELSE IF l # NULL /\ r = NULL
    THEN IF so.nulls_first # so.descending THEN "Greater" ELSE "Less"
    ELSE IF null_eq = "NullEqualsNothing" THEN "Less" ELSE "Equal"

\* A comparison that puts a row with a null before the other row, whichever
\* holds the null.
compare_null_is_less(l, r, so, null_eq) ==
    IF l # NULL /\ r # NULL
    THEN IF so.descending THEN reverse(partial_cmp(l, r)) ELSE partial_cmp(l, r)
    ELSE "Less"

compare_value(l, r, so, null_eq) ==
    IF l # NULL /\ r # NULL
    THEN IF so.descending THEN reverse(partial_cmp(l, r)) ELSE partial_cmp(l, r)
    ELSE IF l = NULL /\ r # NULL
    THEN IF so.nulls_first THEN "Less" ELSE "Greater"
    ELSE IF l # NULL /\ r = NULL
    THEN IF so.nulls_first THEN "Greater" ELSE "Less"
    ELSE IF null_eq = "NullEqualsNothing" THEN "Less" ELSE "Equal"

Min3(a, b, c) == IF a <= b /\ a <= c THEN a ELSE IF b <= c THEN b ELSE c

RECURSIVE compare_loop(_, _, _, _, _, _, _)
compare_loop(k, la, l, ra, r, sos, null_eq) ==
    IF k > Min3(Len(la), Len(ra), Len(sos)) THEN "Equal"
    ELSE LET res == compare_value(la[k][l + 1], ra[k][r + 1], sos[k], null_eq)
         IN  IF res # "Equal" THEN res
             ELSE compare_loop(k + 1, la, l, ra, r, sos, null_eq)

compare_join_arrays(left_arrays, left, right_arrays, right, sort_options, null_equality) ==
    compare_loop(1, left_arrays, left, right_arrays, right, sort_options, null_equality)

is_equal_value(l, r) ==
    IF l # NULL /\ r # NULL THEN l = r
    ELSE IF l = NULL /\ r = NULL THEN TRUE
    ELSE FALSE

\* A comparison that takes no two rows for equal.
never_equal(left_arrays, left, right_arrays, right) == FALSE

\* An equality that looks at the first key only.
is_first_key_equal(left_arrays, left, right_arrays, right) ==
    Len(left_arrays) = 0 \/ Len(right_arrays) = 0
        \/ is_equal_value(left_arrays[1][left + 1], right_arrays[1][right + 1])

is_join_arrays_equal(left_arrays, left, right_arrays, right) ==
    \A k \in Range(IF Len(left_arrays) <= Len(right_arrays)
                   THEN Len(left_arrays) ELSE Len(right_arrays)) :
        is_equal_value(left_arrays[k][left + 1], right_arrays[k][right + 1])

\* join_arrays: the `on` expressions are the first `on` columns of a batch.
join_arrays(batch, on) == [k \in Range(on) |-> batch[k]]


(***************************************************************************)
(* State: the fields of SortMergeJoinStream, the two input streams, the    *)
(* memory pool, and what poll_next has returned so far.                    *)
(***************************************************************************)
VARIABLES
    \* properties, constant during the execution
    schema, null_equality, sort_options, filter, join_type, batch_size,
    streamed_schema, buffered_schema, on, spill_enabled, hash_order,
    \* streamed side
    streamed, streamed_batch, streamed_joined, streamed_state,
    \* buffered side
    buffered, buffered_data, buffered_joined, buffered_state,
    \* merge join state
    state, staging_output_record_batches, output, output_size, current_ordering,
    \* resources
    join_metrics, reservation, pool, streamed_batch_counter,
    \* the caller's view: batches returned so far, what the last step of
    \* poll_next did ("continue" while its loop goes on), and the last error
    \* it returned
    emitted, ret, error,
    \* a call of one of the free functions of the file, when the execution is
    \* one: the function with its arguments, and what it returned
    call, result

props == <<schema, null_equality, sort_options, filter, join_type, batch_size,
           streamed_schema, buffered_schema, on, spill_enabled, hash_order>>

vars == <<schema, null_equality, sort_options, filter, join_type, batch_size,
          streamed_schema, buffered_schema, on, spill_enabled, hash_order,
          streamed, streamed_batch, streamed_joined, streamed_state,
          buffered, buffered_data, buffered_joined, buffered_state,
          state, staging_output_record_batches, output, output_size,
          current_ordering, join_metrics, reservation, pool,
          streamed_batch_counter, emitted, ret, error, call, result>>

\* The variables of the stream and of its caller.
stream_vars ==
    <<props, streamed, streamed_batch, streamed_joined, streamed_state,
      buffered, buffered_data, buffered_joined, buffered_state,
      state, staging_output_record_batches, output, output_size,
      current_ordering, join_metrics, reservation, pool,
      streamed_batch_counter, emitted, ret, error>>

\* `self`: the stream as one record, so that the methods can be written as
\* functions from the stream before to the stream after.  `err` is set by a
\* failing `?`; `poll` carries the Poll result of the two polling methods and
\* `out` the return value of the methods that return a RecordBatch.
Self ==
    [schema |-> schema, null_equality |-> null_equality,
     sort_options |-> sort_options, filter |-> filter, join_type |-> join_type,
     batch_size |-> batch_size, streamed_schema |-> streamed_schema,
     buffered_schema |-> buffered_schema, on |-> on,
     spill_enabled |-> spill_enabled, hash_order |-> hash_order,
     streamed |-> streamed, streamed_batch |-> streamed_batch,
     streamed_joined |-> streamed_joined, streamed_state |-> streamed_state,
     buffered |-> buffered, buffered_data |-> buffered_data,
     buffered_joined |-> buffered_joined, buffered_state |-> buffered_state,
     state |-> state,
     staging_output_record_batches |-> staging_output_record_batches,
     output |-> output, output_size |-> output_size,
     current_ordering |-> current_ordering, join_metrics |-> join_metrics,
     reservation |-> reservation, pool |-> pool,
     streamed_batch_counter |-> streamed_batch_counter,
     err |-> FALSE, failure |-> <<>>, poll |-> "Ready", out |-> <<>>]

\* A failing `?` whose error the model does not tell from others.
Fail(s) == [s EXCEPT !.err = TRUE]

\* A failing `?` with the DataFusionError e.
FailWith(s, e) == [s EXCEPT !.err = TRUE, !.failure = <<e>>]

\* exec_err!, internal_err!: the error's kind and the parts of its message.
exec_err(message) == [kind |-> "Execution", message |-> message]

internal_err(message) == [kind |-> "Internal", message |-> message]

\* An error the model does not tell from others.
OtherError == [kind |-> "Other", message |-> <<>>]

\* `let v = ..; K(v)`: the value is computed once.
Let(v, K(_)) == CHOOSE r \in {K(x) : x \in {v}} : TRUE

\* `let s1 = ..?; K(s1)`: a failure ends the method.
Try(s, K(_)) ==
    CHOOSE r \in {IF x.err THEN x ELSE K(x) : x \in {s}} : TRUE

\* Option<T>: None is <<>>, Some(x) is <<x>>.
None == <<>>
Some(x) == <<x>>
is_some(o) == Len(o) = 1
is_none(o) == Len(o) = 0

FilteredTypes ==
    {"Left", "LeftSemi", "LeftMark", "Right", "RightSemi", "LeftAnti",
     "RightAnti", "Full"}

(***************************************************************************)
(* StreamedBatch, BufferedBatch, BufferedData.                             *)
(***************************************************************************)
\* A streamed batch whose cursor starts past its first row.
StreamedBatch_new_past_first(batch, on_column) ==
    [batch |-> batch, idx |-> 1, join_arrays |-> join_arrays(batch, on_column),
     output_indices |-> <<>>, buffered_batch_idx |-> NULL,
     join_filter_matched_idxs |-> {}]

StreamedBatch_new(batch, on_column) ==
    [batch |-> batch, idx |-> 0, join_arrays |-> join_arrays(batch, on_column),
     output_indices |-> <<>>, buffered_batch_idx |-> NULL,
     join_filter_matched_idxs |-> {}]

StreamedBatch_new_empty(ncols) ==
    [batch |-> new_empty(ncols), idx |-> 0, join_arrays |-> <<>>,
     output_indices |-> <<>>, buffered_batch_idx |-> NULL,
     join_filter_matched_idxs |-> {}]

\* An append that starts a chunk only when none is pending.
append_to_last_chunk(sb, buffered_batch_idx, buffered_idx) ==
    LET chunks == IF Len(sb.output_indices) = 0
                  THEN <<[buffered_batch_idx |-> buffered_batch_idx,
                          streamed_indices |-> <<>>, buffered_indices |-> <<>>]>>
                  ELSE sb.output_indices
        n == Len(chunks)
    IN  [sb EXCEPT
            !.output_indices =
                [chunks EXCEPT
                    ![n].streamed_indices = Append(@, sb.idx),
                    ![n].buffered_indices = Append(@, buffered_idx)],
            !.buffered_batch_idx = buffered_batch_idx]

append_output_pair(sb, buffered_batch_idx, buffered_idx) ==
    LET fresh == Len(sb.output_indices) = 0
                    \/ sb.buffered_batch_idx # buffered_batch_idx
        chunks == IF fresh
                  THEN Append(sb.output_indices,
                              [buffered_batch_idx |-> buffered_batch_idx,
                               streamed_indices |-> <<>>,
                               buffered_indices |-> <<>>])
                  ELSE sb.output_indices
        n == Len(chunks)
    IN  [sb EXCEPT
            !.output_indices =
                [chunks EXCEPT
                    ![n].streamed_indices = Append(@, sb.idx),
                    ![n].buffered_indices = Append(@, buffered_idx)],
            !.buffered_batch_idx =
                IF fresh THEN buffered_batch_idx ELSE @]

\* get_array_memory_size is taken as 4 bytes per value; usize is 8 bytes and
\* Range<usize> 16.
BufferedBatch_new(batch, range, on_column) ==
    [batch |-> Some(batch), range |-> range,
     join_arrays |-> join_arrays(batch, on_column), null_joined |-> <<>>,
     size_estimation |->
        4 * Len(batch) * num_rows(batch) + 4 * on_column * num_rows(batch)
            + next_power_of_two(num_rows(batch)) * 8 + 16 + 8,
     join_filter_not_matched_map |-> <<>>,
     num_rows |-> num_rows(batch), spill_file |-> None]

range_len(r) == IF r.end > r.start THEN r.end - r.start ELSE 0

has_buffered_rows(bd) ==
    \E i \in Range(Len(bd.batches)) : range_len(bd.batches[i].range) > 0

scanning_reset(bd) == [bd EXCEPT !.scanning_batch_idx = 0, !.scanning_offset = 0]

\* A scan that ends with the first batch of the key group.
scanning_finished_in_head(bd) ==
    bd.scanning_batch_idx = Len(bd.batches) \/ bd.scanning_batch_idx >= 1

scanning_finished(bd) == bd.scanning_batch_idx = Len(bd.batches)

scanning_batch(bd) == bd.batches[bd.scanning_batch_idx + 1]

scanning_idx(bd) == scanning_batch(bd).range.start + bd.scanning_offset

scanning_batch_finished(bd) ==
    bd.scanning_offset = range_len(scanning_batch(bd).range)

RECURSIVE scanning_skip(_)
scanning_skip(bd) ==
    IF ~scanning_finished(bd) /\ scanning_batch_finished(bd)
    THEN scanning_skip([bd EXCEPT !.scanning_batch_idx = @ + 1,
                                  !.scanning_offset = 0])
    ELSE bd

scanning_advance(bd) == scanning_skip([bd EXCEPT !.scanning_offset = @ + 1])

scanning_finish(bd) ==
    [bd EXCEPT !.scanning_batch_idx = Len(bd.batches), !.scanning_offset = 0]

(***************************************************************************)
(* Corrected filter mask.                                                  *)
(***************************************************************************)
\* `i` is the 0-based position, as in the source.
last_index_for_row(row_index, indices, batch_ids, indices_len) ==
    \/ row_index = indices_len - 1
    \/ batch_ids[row_index + 1] # batch_ids[row_index + 2]
    \/ ValueU(indices[row_index + 1]) # ValueU(indices[row_index + 2])

append_n(n, v) == [i \in Range(n) |-> v]

\* The filter's own mask, without the correction.
mask_uncorrected(i, seen_true, row_indices, batch_ids, filter_mask, acc) == filter_mask

\* A correction that keeps only the first true of a streamed row.
RECURSIVE mask_first_true(_, _, _, _, _, _)
mask_first_true(i, seen_true, row_indices, batch_ids, filter_mask, acc) ==
    IF i >= Len(row_indices) THEN acc
    ELSE LET last_index ==
                last_index_for_row(i, row_indices, batch_ids, Len(row_indices))
             val == ValueB(filter_mask[i + 1])
             slot == IF val /\ ~seen_true THEN "T"
                     ELSE IF seen_true \/ (~val /\ ~last_index) THEN "N0"
                     ELSE "F"
         IN  mask_first_true(i + 1, IF last_index THEN FALSE ELSE seen_true \/ val,
                             row_indices, batch_ids, filter_mask, Append(acc, slot))

RECURSIVE mask_left(_, _, _, _, _, _)
mask_left(i, seen_true, row_indices, batch_ids, filter_mask, acc) ==
    IF i >= Len(row_indices) THEN acc
    ELSE LET last_index ==
                last_index_for_row(i, row_indices, batch_ids, Len(row_indices))
             val == ValueB(filter_mask[i + 1])
             seen == seen_true \/ val
             slot == IF val THEN "T"
                     ELSE IF seen_true \/ (~val /\ ~last_index) THEN "N0"
                     ELSE "F"
         IN  mask_left(i + 1, IF last_index THEN FALSE ELSE seen,
                       row_indices, batch_ids, filter_mask, Append(acc, slot))

RECURSIVE mask_mark(_, _, _, _, _, _)
mask_mark(i, seen_true, row_indices, batch_ids, filter_mask, acc) ==
    IF i >= Len(row_indices) THEN acc
    ELSE LET last_index ==
                last_index_for_row(i, row_indices, batch_ids, Len(row_indices))
             val == ValueB(filter_mask[i + 1])
             first == val /\ ~seen_true
             seen == seen_true \/ first
             slot == IF first THEN "T"
                     ELSE IF seen_true \/ (~val /\ ~last_index) THEN "N0"
                     ELSE "F"
         IN  mask_mark(i + 1, IF last_index THEN FALSE ELSE seen,
                       row_indices, batch_ids, filter_mask, Append(acc, slot))

\* A semi correction that keeps every true.
mask_semi_every_true(i, seen_true, row_indices, batch_ids, filter_mask, acc) ==
    [k \in Range(Len(filter_mask)) |-> IF ValueB(filter_mask[k]) THEN "T" ELSE "N0"]

RECURSIVE mask_semi(_, _, _, _, _, _)
mask_semi(i, seen_true, row_indices, batch_ids, filter_mask, acc) ==
    IF i >= Len(row_indices) THEN acc
    ELSE LET last_index ==
                last_index_for_row(i, row_indices, batch_ids, Len(row_indices))
             val == ValueB(filter_mask[i + 1])
             first == val /\ ~seen_true
             seen == seen_true \/ first
         IN  mask_semi(i + 1, IF last_index THEN FALSE ELSE seen,
                       row_indices, batch_ids, filter_mask,
                       Append(acc, IF first THEN "T" ELSE "N0"))

\* An anti correction that answers at every pair, not at the last of a row.
mask_anti_every_pair(i, seen_true, row_indices, batch_ids, filter_mask, acc) ==
    [k \in Range(Len(filter_mask)) |-> IF ValueB(filter_mask[k]) THEN "N0" ELSE "T"]

RECURSIVE mask_anti(_, _, _, _, _, _)
mask_anti(i, seen_true, row_indices, batch_ids, filter_mask, acc) ==
    IF i >= Len(row_indices) THEN acc
    ELSE LET last_index ==
                last_index_for_row(i, row_indices, batch_ids, Len(row_indices))
             seen == seen_true \/ ValueB(filter_mask[i + 1])
             slot == IF last_index /\ ~seen THEN "T" ELSE "N0"
         IN  mask_anti(i + 1, IF last_index THEN FALSE ELSE seen,
                       row_indices, batch_ids, filter_mask, Append(acc, slot))

\* A Full arm that leaves every failing pair false.
mask_full_every_false(i, seen_true, seen_false, last_true_idx, first_row_idx, row_indices, batch_ids, filter_mask, m) ==
    [k \in Range(Len(filter_mask)) |->
        IF IsNullB(filter_mask[k]) \/ ValueB(filter_mask[k]) THEN "T" ELSE "F"]

\* The Full arm: `m` is the mask vector being rewritten in place.
RECURSIVE mask_full(_, _, _, _, _, _, _, _, _)
mask_full(i, seen_true, seen_false, last_true_idx, first_row_idx, row_indices, batch_ids, filter_mask, m) ==
    IF i >= Len(row_indices) THEN m
    ELSE LET last_index ==
                last_index_for_row(i, row_indices, batch_ids, Len(row_indices))
             val == ValueB(filter_mask[i + 1])
             is_null == IsNullB(filter_mask[i + 1])
             lti == IF val /\ ~seen_true THEN i ELSE last_true_idx
             st == seen_true \/ val
             slot == IF is_null \/ val THEN "T"
                     ELSE IF ~is_null /\ ~val /\ (st \/ seen_false) THEN "N0"
                     ELSE "F"
             m1 == [m EXCEPT ![i + 1] = slot]
             sf == seen_false \/ (~is_null /\ ~val)
             m2 == IF last_index /\ st
                   THEN [j \in Range(Len(m1)) |->
                            IF first_row_idx <= j - 1 /\ j - 1 < lti
                            THEN "N0" ELSE m1[j]]
                   ELSE m1
         IN  IF last_index
             THEN mask_full(i + 1, FALSE, FALSE, 0, i + 1,
                            row_indices, batch_ids, filter_mask, m2)
             ELSE mask_full(i + 1, st, sf, lti, first_row_idx,
                            row_indices, batch_ids, filter_mask, m2)

\* `expected_size - corrected_mask.len()` is a usize subtraction.
pad_underflows(jt, row_indices, expected_size) ==
    /\ jt \in {"Left", "Right", "LeftMark", "LeftAnti", "RightAnti"}
    /\ expected_size < Len(row_indices)

\* Returns None for the join types that need no correction.
get_corrected_filter_mask(jt, row_indices, batch_ids, filter_mask, expected_size) ==
    LET n == Len(row_indices)
    IN  IF jt \in {"Left", "Right"}
        THEN Some(mask_left(0, FALSE, row_indices, batch_ids, filter_mask, <<>>)
                    \o append_n(expected_size - n, "F"))
        ELSE IF jt = "LeftMark"
        THEN Some(mask_mark(0, FALSE, row_indices, batch_ids, filter_mask, <<>>)
                    \o append_n(expected_size - n, "F"))
        ELSE IF jt \in {"LeftSemi", "RightSemi"}
        THEN Some(mask_semi(0, FALSE, row_indices, batch_ids, filter_mask, <<>>))
        ELSE IF jt \in {"LeftAnti", "RightAnti"}
        THEN Some(mask_anti(0, FALSE, row_indices, batch_ids, filter_mask, <<>>)
                    \o append_n(expected_size - n, "T"))
        ELSE IF jt = "Full"
        THEN Some(mask_full(0, FALSE, FALSE, 0, 0, row_indices, batch_ids,
                            filter_mask, append_n(n, "T")))
        ELSE None

(***************************************************************************)
(* Column fetch and the residual filter.                                   *)
(***************************************************************************)
create_unmatched_columns(jt, ncols, size) ==
    IF jt = "LeftMark" THEN <<[i \in Range(size) |-> FALSE]>>
    ELSE [c \in Range(ncols) |-> new_null_array(size)]

\* The columns a filter reads: those of its Left side from the first argument,
\* then those of its Right side from the second.
get_filter_column(join_filter, streamed_columns, buffered_columns) ==
    IF is_none(join_filter) THEN <<>>
    ELSE LET ci == join_filter[1].column_indices
             IsL(x) == x.side = "Left"
             IsR(x) == x.side = "Right"
             ls == SelectSeq(ci, IsL)
             rs == SelectSeq(ci, IsR)
         IN  [i \in Range(Len(ls)) |-> streamed_columns[ls[i].index + 1]]
                \o [i \in Range(Len(rs)) |-> buffered_columns[rs[i].index + 1]]

\* The filter expression over one row of the filter batch (two columns: the
\* left row's and the right row's identity).
evaluate_row(f, l, r) ==
    IF <<l, r>> \in f.true THEN "T"
    ELSE IF <<l, r>> \in f.null0 THEN "N0"
    ELSE IF <<l, r>> \in f.null1 THEN "N1"
    ELSE "F"

evaluate(f, filter_batch) ==
    [i \in Range(num_rows(filter_batch)) |->
        evaluate_row(f, filter_batch[1][i], filter_batch[2][i])]

mask_null_count(mask) == Cardinality({i \in Range(Len(mask)) : IsNullB(mask[i])})

\* Result: [err, cols].
\* A fetch that finds nulls in place of the rows of a spilled batch.
fetch_spilled_as_nulls(buffered_batch, buffered_indices) ==
    IF is_none(buffered_batch.spill_file) /\ is_some(buffered_batch.batch)
    THEN [err |-> FALSE,
          cols |-> [c \in Range(Len(buffered_batch.batch[1])) |->
                        take(buffered_batch.batch[1][c], buffered_indices)]]
    ELSE IF is_some(buffered_batch.spill_file) /\ is_none(buffered_batch.batch)
    THEN [err |-> FALSE,
          cols |-> [c \in Range(Len(buffered_batch.spill_file[1])) |->
                        new_null_array(Len(buffered_indices))]]
    ELSE [err |-> TRUE, cols |-> <<>>]

fetch_right_columns_from_batch_by_idxs(buffered_batch, buffered_indices) ==
    IF is_none(buffered_batch.spill_file) /\ is_some(buffered_batch.batch)
    THEN [err |-> \E i \in Range(Len(buffered_indices)) :
                    buffered_indices[i] # NULL
                        /\ buffered_indices[i] >= num_rows(buffered_batch.batch[1]),
          cols |-> [c \in Range(Len(buffered_batch.batch[1])) |->
                        take(buffered_batch.batch[1][c], buffered_indices)]]
    ELSE IF is_some(buffered_batch.spill_file) /\ is_none(buffered_batch.batch)
    THEN LET file == buffered_batch.spill_file[1]
         IN  [err |-> FALSE,
              cols |-> [c \in Range(Len(file)) |-> take(file[c], buffered_indices)]]
    ELSE [err |-> TRUE, cols |-> <<>>]

\* `buffered_data.batches[buffered_batch_idx]` panics out of range.
fetch_right_columns_by_idxs(bd, buffered_batch_idx, buffered_indices) ==
    IF buffered_batch_idx >= Len(bd.batches) THEN [err |-> TRUE, cols |-> <<>>]
    ELSE fetch_right_columns_from_batch_by_idxs(bd.batches[buffered_batch_idx + 1],
                                                buffered_indices)

\* Result: [err, batch], batch an Option.
produce_buffered_null_batch(out_ncols, streamed_ncols, buffered_indices, buffered_batch) ==
    IF Len(buffered_indices) = 0 THEN [err |-> FALSE, batch |-> None]
    ELSE Let(fetch_right_columns_from_batch_by_idxs(buffered_batch, buffered_indices),
             LAMBDA right :
         Let([c \in Range(streamed_ncols) |-> new_null_array(Len(buffered_indices))]
                \o right.cols,
             LAMBDA columns :
                IF right.err \/ ~try_new_ok(out_ncols, columns)
                THEN [err |-> TRUE, batch |-> None]
                ELSE [err |-> FALSE, batch |-> Some(columns)]))

\* A null-joined batch goes to staging with null mask and null row index.
stage_null_joined(s, record_batch) ==
    LET n == num_rows(record_batch)
    IN  [s EXCEPT
            !.staging_output_record_batches.filter_mask = @ \o append_n(n, "N0"),
            !.staging_output_record_batches.row_indices = @ \o append_n(n, NULL),
            !.staging_output_record_batches.batch_ids = @ \o append_n(n, 0),
            !.staging_output_record_batches.batches = Append(@, record_batch)]

(***************************************************************************)
(* Freezing index pairs into staged record batches.                        *)
(***************************************************************************)
RECURSIVE freeze_buffered_loop(_, _, _)
freeze_buffered_loop(s, i, batch_count) ==
    IF i > batch_count THEN s
    ELSE Let(produce_buffered_null_batch(s.schema, s.streamed_schema,
                s.buffered_data.batches[i].null_joined, s.buffered_data.batches[i]),
             LAMBDA r :
                IF r.err THEN Fail(s)
                ELSE freeze_buffered_loop(
                        [(IF is_some(r.batch) THEN stage_null_joined(s, r.batch[1])
                          ELSE s)
                            EXCEPT !.buffered_data.batches[i].null_joined = <<>>],
                        i + 1, batch_count))

freeze_buffered(s, batch_count) ==
    IF s.join_type # "Full" THEN s
    ELSE IF batch_count > Len(s.buffered_data.batches) THEN Fail(s)
    ELSE freeze_buffered_loop(s, 1, batch_count)

\* The not-matched bookkeeping of a Full join, for the pairs of one chunk.
RECURSIVE not_matched_insert(_, _, _, _)
not_matched_insert(map, i, right_indices, pre_mask) ==
    IF i > Len(pre_mask) THEN map
    ELSE IF right_indices[i] = NULL
    THEN not_matched_insert(map, i + 1, right_indices, pre_mask)
    ELSE LET k == right_indices[i]
             old == IF k \in DOMAIN map THEN map[k] ELSE TRUE
             new == [x \in DOMAIN map \cup {k} |->
                        IF x = k THEN old /\ ~ValueB(pre_mask[i]) ELSE map[x]]
         IN  not_matched_insert(new, i + 1, right_indices, pre_mask)

\* One iteration of the loop of freeze_streamed, for chunk k.
freeze_chunk(s, k) ==
    LET chunk == s.streamed_batch.output_indices[k]
        jt == s.join_type
        left_indices == chunk.streamed_indices
        right_indices == chunk.buffered_indices
        s0 == [s EXCEPT !.streamed_batch.output_indices[k].streamed_indices = <<>>]
        s1 == [s EXCEPT !.streamed_batch.output_indices[k].streamed_indices = <<>>,
                        !.streamed_batch.output_indices[k].buffered_indices = <<>>]
        has_idx == chunk.buffered_batch_idx # NULL
    IN  IF Len(left_indices) = 0 THEN s0
        ELSE
        Let([c \in Range(Len(s.streamed_batch.batch)) |->
                take(s.streamed_batch.batch[c], left_indices)],
            LAMBDA left_columns :
        Let(IF has_idx
            THEN fetch_right_columns_by_idxs(s.buffered_data,
                    chunk.buffered_batch_idx, right_indices)
            ELSE [err |-> FALSE, cols |-> <<>>],
            LAMBDA fetched :
        Let(IF jt = "LeftMark" THEN <<is_not_null(right_indices)>>
            ELSE IF jt \in {"LeftSemi", "LeftAnti", "RightAnti", "RightSemi"}
            THEN <<>>
            ELSE IF has_idx THEN fetched.cols
            ELSE create_unmatched_columns(jt, s.buffered_schema, Len(right_indices)),
            LAMBDA right_columns :
        Let(IF has_idx
            THEN IF jt # "Right"
                 THEN IF jt \in {"LeftSemi", "LeftAnti", "LeftMark"}
                      THEN get_filter_column(s.filter, left_columns, fetched.cols)
                      ELSE IF jt \in {"RightAnti", "RightSemi"}
                      THEN get_filter_column(s.filter, fetched.cols, left_columns)
                      ELSE get_filter_column(s.filter, left_columns, right_columns)
                 ELSE get_filter_column(s.filter, right_columns, left_columns)
            ELSE <<>>,
            LAMBDA filter_columns :
        Let(IF jt # "Right" THEN left_columns \o right_columns
            ELSE right_columns \o left_columns,
            LAMBDA output_batch :
            IF has_idx /\ fetched.err THEN Fail(s1)
            ELSE IF ~try_new_ok(s.schema, output_batch) THEN Fail(s1)
            ELSE IF Len(filter_columns) # 0 /\ is_some(s.filter)
            THEN
                Let(evaluate(s.filter[1], filter_columns), LAMBDA pre_mask :
                Let(IF mask_null_count(pre_mask) > 0
                    THEN prep_null_mask_filter(pre_mask) ELSE pre_mask,
                    LAMBDA mask :
                Let([s1 EXCEPT
                        !.staging_output_record_batches.batches =
                            Append(@, IF jt \in FilteredTypes THEN output_batch
                                      ELSE filter_record_batch(output_batch, mask)),
                        !.staging_output_record_batches.filter_mask =
                            @ \o (IF jt # "Full" THEN mask ELSE pre_mask),
                        !.staging_output_record_batches.row_indices =
                            @ \o left_indices,
                        !.staging_output_record_batches.batch_ids =
                            @ \o append_n(Len(left_indices), s.streamed_batch_counter)],
                    LAMBDA s2 :
                    IF jt = "Full"
                    THEN [s2 EXCEPT
                            !.buffered_data.batches[chunk.buffered_batch_idx + 1]
                                .join_filter_not_matched_map =
                                    not_matched_insert(@, 1, right_indices, pre_mask)]
                    ELSE s2)))
            ELSE [s1 EXCEPT !.staging_output_record_batches.batches =
                                Append(@, output_batch)])))))

RECURSIVE freeze_streamed_loop(_, _)
freeze_streamed_loop(s, k) ==
    IF k > Len(s.streamed_batch.output_indices)
    THEN [s EXCEPT !.streamed_batch.output_indices = <<>>]
    ELSE Try(freeze_chunk(s, k), LAMBDA s1 : freeze_streamed_loop(s1, k + 1))

freeze_streamed(s) == freeze_streamed_loop(s, 1)

freeze_all(s) ==
    Try(freeze_buffered(s, Len(s.buffered_data.batches)),
        LAMBDA s1 : freeze_streamed(s1))

\* A dequeuing that freezes the buffered batch only.
freeze_dequeuing_buffered_only(s) == freeze_buffered(s, 1)

freeze_dequeuing_buffered(s) ==
    Try(freeze_streamed(s), LAMBDA s1 : freeze_buffered(s1, 1))

(***************************************************************************)
(* Producing output batches.                                               *)
(***************************************************************************)
staging_clear(s) ==
    [s EXCEPT !.staging_output_record_batches =
        [batches |-> <<>>, filter_mask |-> <<>>, row_indices |-> <<>>,
         batch_ids |-> <<>>]]

\* A reset that keeps the staged batches of a filtered join and forgets the
\* streamed rows they were made of.
output_record_batch_and_forget(s) ==
    Let(concat_batches(s.schema, s.staging_output_record_batches.batches),
        LAMBDA record_batch :
    Let(num_rows(record_batch), LAMBDA n :
        [s EXCEPT
            !.join_metrics.output_batches = @ + 1,
            !.join_metrics.output_rows = @ + n,
            !.output_size = IF n = 0 \/ n > s.output_size THEN 0 ELSE @ - n,
            !.out = record_batch,
            !.staging_output_record_batches =
                [batches |-> IF is_some(s.filter) /\ s.join_type \in FilteredTypes
                             THEN @.batches ELSE <<>>,
                 filter_mask |-> <<>>, row_indices |-> <<>>, batch_ids |-> <<>>]]))

\* The batch is returned in `out`.
output_record_batch_and_reset(s) ==
    Let(concat_batches(s.schema, s.staging_output_record_batches.batches),
        LAMBDA record_batch :
    Let(num_rows(record_batch), LAMBDA n :
    Let([s EXCEPT
            !.join_metrics.output_batches = @ + 1,
            !.join_metrics.output_rows = @ + n,
            !.output_size = IF n = 0 \/ n > s.output_size THEN 0 ELSE @ - n,
            !.out = record_batch],
        LAMBDA s1 :
            IF ~(is_some(s.filter) /\ s.join_type \in FilteredTypes)
            THEN [s1 EXCEPT !.staging_output_record_batches.batches = <<>>]
            ELSE s1)))

\* The first n columns of a batch (all of them when it has fewer).
first_columns(batch, n) ==
    SubSeq(batch, 1, IF n < Len(batch) THEN n ELSE Len(batch))

\* The batch is returned in `out`.
filter_record_batch_by_join_type(s, record_batch, corrected_mask) ==
    LET jt == s.join_type
        left_columns_length == s.streamed_schema
        right_columns_length == s.buffered_schema
    IN  IF Len(corrected_mask) > num_rows(record_batch) THEN Fail(s)
        ELSE
        Let(filter_record_batch(record_batch, corrected_mask),
            LAMBDA filtered_record_batch :
        IF jt \in {"Left", "LeftMark", "Right"}
        THEN Let(filter_record_batch(record_batch, not(corrected_mask)),
                 LAMBDA null_joined_batch :
             Let(create_unmatched_columns(jt, s.buffered_schema,
                                          num_rows(null_joined_batch)),
                 LAMBDA right_columns :
             Let(IF jt # "Right"
                 THEN first_columns(null_joined_batch, right_columns_length)
                        \o right_columns
                 ELSE right_columns
                        \o SubSeq(null_joined_batch, left_columns_length + 1,
                                  Len(null_joined_batch)),
                 LAMBDA columns :
                    IF ~try_new_ok(s.schema, columns) THEN Fail(s)
                    ELSE [staging_clear(s) EXCEPT !.out =
                            concat_batches(s.schema,
                                           <<filtered_record_batch, columns>>)])))
        ELSE IF jt \in {"LeftSemi", "LeftAnti"}
        THEN IF left_columns_length > Len(filtered_record_batch) THEN Fail(s)
             ELSE [staging_clear(s) EXCEPT !.out =
                        project(filtered_record_batch, left_columns_length)]
        ELSE IF jt \in {"RightAnti", "RightSemi"}
        THEN IF right_columns_length > Len(filtered_record_batch) THEN Fail(s)
             ELSE [staging_clear(s) EXCEPT !.out =
                        project(filtered_record_batch, right_columns_length)]
        ELSE IF jt = "Full" /\ false_count(corrected_mask) > 0
        THEN Let(filter_record_batch(record_batch, not(corrected_mask)),
                 LAMBDA joined_filter_not_matched_batch :
             Let(first_columns(joined_filter_not_matched_batch, left_columns_length)
                    \o [c \in Range(s.buffered_schema) |->
                            new_null_array(num_rows(joined_filter_not_matched_batch))],
                 LAMBDA result_joined :
                    IF ~try_new_ok(s.schema, result_joined) THEN Fail(s)
                    ELSE [staging_clear(s) EXCEPT !.out =
                            concat_batches(s.schema,
                                           <<filtered_record_batch, result_joined>>)]))
        ELSE [staging_clear(s) EXCEPT !.out = filtered_record_batch])

\* The batch is returned in `out`.  finish() empties the two builders.
filter_joined_batch(s) ==
    Let(concat_batches(s.schema, s.staging_output_record_batches.batches),
        LAMBDA record_batch :
    LET stg == s.staging_output_record_batches
        n == num_rows(record_batch)
        regenerate == null_count(stg.row_indices) = Len(stg.row_indices)
                        /\ Len(stg.row_indices) # n
        out_indices == IF regenerate THEN append_n(n, NULL) ELSE stg.row_indices
        out_mask == IF regenerate THEN append_n(n, "N0") ELSE stg.filter_mask
        batch_ids == IF regenerate THEN append_n(n, 0) ELSE stg.batch_ids
        s1 == [s EXCEPT !.staging_output_record_batches.row_indices = <<>>,
                        !.staging_output_record_batches.filter_mask = <<>>]
    IN  IF Len(out_mask) = 0
        THEN [s1 EXCEPT !.staging_output_record_batches.batches = <<>>,
                        !.out = record_batch]
        ELSE IF pad_underflows(s.join_type, out_indices, n) THEN Fail(s1)
        ELSE Let(get_corrected_filter_mask(s.join_type, out_indices, batch_ids,
                                           out_mask, n),
                 LAMBDA maybe_corrected_mask :
                    filter_record_batch_by_join_type(s1, record_batch,
                        IF is_some(maybe_corrected_mask)
                        THEN maybe_corrected_mask[1] ELSE out_mask)))

\* The keys of the map whose value is true, in the HashMap's iteration order.
RECURSIVE SetToSeq(_, _)
SetToSeq(S, order) ==
    IF S = {} THEN <<>>
    ELSE LET x == IF order = "asc"
                  THEN CHOOSE m \in S : \A y \in S : m <= y
                  ELSE CHOOSE m \in S : \A y \in S : m >= y
         IN  <<x>> \o SetToSeq(S \ {x}, order)

\* `buffered_batch` has been popped; only the staging is changed.
produce_buffered_not_matched(s, buffered_batch) ==
    IF s.join_type # "Full" THEN s
    ELSE LET map == buffered_batch.join_filter_not_matched_map
         IN  Let(produce_buffered_null_batch(s.schema, s.streamed_schema,
                    SetToSeq({k \in DOMAIN map : map[k]}, s.hash_order),
                    buffered_batch),
                 LAMBDA r :
                    IF r.err THEN Fail(s)
                    ELSE IF is_some(r.batch) THEN stage_null_joined(s, r.batch[1])
                    ELSE s)

(***************************************************************************)
(* Input streams and the memory pool.                                      *)
(***************************************************************************)
\* An input stream is the script of its poll results and the number of them
\* already taken; past the end of the script it returns None.
\* Result: [res, batch, stream].
poll_next_unpin(up) ==
    IF up.pos >= Len(up.items)
    THEN [res |-> "None", batch |-> <<>>,
          stream |-> [up EXCEPT !.ended = TRUE,
                                !.polled_after_end = @ \/ up.ended]]
    ELSE LET item == up.items[up.pos + 1]
         IN  [res |-> IF item.kind = "Batch" THEN "Some" ELSE item.kind,
              batch |-> item.batch,
              stream |-> [up EXCEPT !.pos = @ + 1]]

\* MemoryReservation::try_grow: the pool's answers are a script and the number
\* of them already given; the pool grants once the script is used up.
try_grow_granted(s) ==
    s.pool.pos >= Len(s.pool.answers) \/ s.pool.answers[s.pool.pos + 1]

pool_next(s) ==
    [s EXCEPT !.pool.pos = IF @ < Len(s.pool.answers) THEN @ + 1 ELSE @]

\* SpillManager::spill_record_batch_and_finish: the file holds the batch and
\* the spill metrics are updated.
spill_record_batch_and_finish(s, batch, size) ==
    [s EXCEPT !.join_metrics.spill_count = @ + 1,
              !.join_metrics.spilled_bytes = @ + size,
              !.join_metrics.spilled_rows = @ + num_rows(batch)]

\* A release that leaves the reservation as it is.
free_nothing(s, buffered_batch) == s

\* A release that shrinks the reservation for spilled batches too.
free_every_batch(s, buffered_batch) ==
    [s EXCEPT !.reservation = IF buffered_batch.size_estimation > @ THEN 0
                              ELSE @ - buffered_batch.size_estimation]

free_reservation(s, buffered_batch) ==
    IF is_none(buffered_batch.spill_file) /\ is_some(buffered_batch.batch)
    THEN IF buffered_batch.size_estimation > s.reservation THEN Fail(s)
         ELSE [s EXCEPT !.reservation = @ - buffered_batch.size_estimation]
    ELSE s

\* An allocation that keeps the batch whatever the pool answers.
allocate_unchecked(s, buffered_batch) ==
    [pool_next(s) EXCEPT !.buffered_data.batches = Append(@, buffered_batch)]

\* MemoryConsumer::new(format!("SMJStream[{partition}]")): the name under
\* which the stream's reservation is registered.
consumer_name == "SMJStream[partition]"

\* The message of the error of a refused try_grow: it names the consumer.
try_grow_message == <<"Failed to allocate for ", consumer_name>>

\* An allocation whose spill leaves the batch in memory beside its file.
allocate_keeps_body(s, buffered_batch) ==
    LET s0 == pool_next(s)
    IN  IF try_grow_granted(s)
        THEN [s0 EXCEPT !.reservation = @ + buffered_batch.size_estimation,
                        !.buffered_data.batches = Append(@, buffered_batch)]
        ELSE IF s.spill_enabled /\ is_some(buffered_batch.batch)
        THEN [spill_record_batch_and_finish(s0, buffered_batch.batch[1],
                                            buffered_batch.size_estimation)
                EXCEPT !.buffered_data.batches =
                    Append(@, [buffered_batch EXCEPT
                                !.spill_file = Some(buffered_batch.batch[1])])]
        ELSE FailWith(s0, internal_err(<<"Buffered batch has empty body">>))

allocate_reservation(s, buffered_batch) ==
    LET s0 == pool_next(s)
    IN  IF try_grow_granted(s)
        THEN LET size == s.reservation + buffered_batch.size_estimation
             IN  [s0 EXCEPT
                    !.reservation = size,
                    !.join_metrics.peak_mem_used = IF size > @ THEN size ELSE @,
                    !.buffered_data.batches = Append(@, buffered_batch)]
        ELSE IF s.spill_enabled
        THEN IF is_some(buffered_batch.batch)
             THEN LET s1 == spill_record_batch_and_finish(s0, buffered_batch.batch[1],
                                buffered_batch.size_estimation)
                  IN  [s1 EXCEPT !.buffered_data.batches =
                        Append(@, [buffered_batch EXCEPT
                                    !.spill_file = Some(buffered_batch.batch[1]),
                                    !.batch = None])]
             ELSE FailWith(s0, internal_err(<<"Buffered batch has empty body">>))
        ELSE FailWith(s0, exec_err(try_grow_message
                                    \o <<". Disk spilling disabled.">>))

(***************************************************************************)
(* Polling the two sides.                                                  *)
(***************************************************************************)
RECURSIVE poll_streamed_row(_)
poll_streamed_row(s) ==
    IF s.streamed_state = "Init"
    THEN IF s.streamed_batch.idx + 1 < num_rows(s.streamed_batch.batch)
         THEN [s EXCEPT !.streamed_batch.idx = @ + 1,
                        !.streamed_state = "Ready", !.poll = "Ready"]
         ELSE poll_streamed_row([s EXCEPT !.streamed_state = "Polling"])
    ELSE IF s.streamed_state = "Polling"
    THEN Let(poll_next_unpin(s.streamed), LAMBDA p :
         Let([s EXCEPT !.streamed = p.stream], LAMBDA s1 :
            IF p.res = "Err" THEN Fail(s1)
            ELSE IF p.res = "Pending" THEN [s1 EXCEPT !.poll = "Pending"]
            ELSE IF p.res = "None"
            THEN poll_streamed_row([s1 EXCEPT !.streamed_state = "Exhausted"])
            ELSE IF num_rows(p.batch) > 0
            THEN Try(freeze_streamed(s1), LAMBDA s2 :
                    poll_streamed_row(
                        [s2 EXCEPT
                            !.join_metrics.input_batches = @ + 1,
                            !.join_metrics.input_rows = @ + num_rows(p.batch),
                            !.streamed_batch = StreamedBatch_new(p.batch, s.on),
                            !.streamed_batch_counter = @ + 1,
                            !.streamed_state = "Ready"]))
            ELSE poll_streamed_row(s1)))
    ELSE [s EXCEPT !.poll = "Ready"]

\* The `while` of BufferedState::Init: dequeue the fully processed heads.
RECURSIVE pop_processed_heads(_)
pop_processed_heads(s) ==
    IF Len(s.buffered_data.batches) = 0 THEN s
    ELSE IF s.buffered_data.batches[1].range.end = s.buffered_data.batches[1].num_rows
    THEN Try(freeze_dequeuing_buffered(s), LAMBDA s1 :
         Let(s1.buffered_data.batches[1], LAMBDA buffered_batch :
         Try(produce_buffered_not_matched(
                [s1 EXCEPT !.buffered_data.batches = Tail(@)], buffered_batch),
             LAMBDA s3 :
         Try(free_reservation(s3, buffered_batch), LAMBDA s4 :
            pop_processed_heads(s4)))))
    ELSE s

\* The `while` of BufferedState::PollingRest: extend the tail's range over the
\* rows equal to the head's first row.  Result: [bd, stopped].
\* An extension of the tail's range that takes the rest of the tail.
extend_to_last_row(bd) ==
    [bd |-> [bd EXCEPT !.batches[Len(bd.batches)].range.end =
                            bd.batches[Len(bd.batches)].num_rows],
     stopped |-> FALSE]

RECURSIVE extend_tail_range(_)
extend_tail_range(bd) ==
    LET n == Len(bd.batches)
        tail == bd.batches[n]
        head == bd.batches[1]
    IN  IF tail.range.end < tail.num_rows
        THEN IF is_join_arrays_equal(head.join_arrays, head.range.start,
                                     tail.join_arrays, tail.range.end)
             THEN extend_tail_range([bd EXCEPT !.batches[n].range.end = @ + 1])
             ELSE [bd |-> bd, stopped |-> TRUE]
        ELSE [bd |-> bd, stopped |-> FALSE]

\* A batch polled from the buffered input: counted, and when it has rows
\* made a BufferedBatch with the given range and reserved.
buffered_polled(s, batch, range) ==
    Let([s EXCEPT !.join_metrics.input_batches = @ + 1,
                  !.join_metrics.input_rows = @ + num_rows(batch)],
        LAMBDA s2 :
            IF num_rows(batch) > 0
            THEN allocate_reservation(s2, BufferedBatch_new(batch, range, s.on))
            ELSE s2)

RECURSIVE poll_buffered_batches(_)
poll_buffered_batches(s) ==
    IF s.buffered_state = "Init"
    THEN Try(pop_processed_heads(s), LAMBDA s1 :
            IF Len(s1.buffered_data.batches) = 0
            THEN poll_buffered_batches([s1 EXCEPT !.buffered_state = "PollingFirst"])
            ELSE poll_buffered_batches(
                    [s1 EXCEPT
                        !.buffered_data.batches[Len(s1.buffered_data.batches)].range =
                            [start |-> @.end, end |-> @.end + 1],
                        !.buffered_state = "PollingRest"]))
    ELSE IF s.buffered_state = "PollingFirst"
    THEN Let(poll_next_unpin(s.buffered), LAMBDA p :
         Let([s EXCEPT !.buffered = p.stream], LAMBDA s1 :
            IF p.res = "Err" THEN Fail(s1)
            ELSE IF p.res = "Pending" THEN [s1 EXCEPT !.poll = "Pending"]
            ELSE IF p.res = "None"
            THEN [s1 EXCEPT !.buffered_state = "Exhausted", !.poll = "Ready"]
            ELSE Try(buffered_polled(s1, p.batch, [start |-> 0, end |-> 1]),
                     LAMBDA s3 :
                        IF num_rows(p.batch) > 0
                        THEN poll_buffered_batches(
                                [s3 EXCEPT !.buffered_state = "PollingRest"])
                        ELSE poll_buffered_batches(s3))))
    ELSE IF s.buffered_state = "PollingRest"
    THEN IF s.buffered_data.batches[Len(s.buffered_data.batches)].range.end
                < s.buffered_data.batches[Len(s.buffered_data.batches)].num_rows
         THEN Let(extend_tail_range(s.buffered_data), LAMBDA e :
                IF e.stopped
                THEN [s EXCEPT !.buffered_data = e.bd,
                               !.buffered_state = "Ready", !.poll = "Ready"]
                ELSE poll_buffered_batches([s EXCEPT !.buffered_data = e.bd]))
         ELSE Let(poll_next_unpin(s.buffered), LAMBDA p :
              Let([s EXCEPT !.buffered = p.stream], LAMBDA s1 :
                IF p.res = "Err" THEN Fail(s1)
                ELSE IF p.res = "Pending" THEN [s1 EXCEPT !.poll = "Pending"]
                ELSE IF p.res = "None"
                THEN poll_buffered_batches([s1 EXCEPT !.buffered_state = "Ready"])
                ELSE Try(buffered_polled(s1, p.batch, [start |-> 0, end |-> 0]),
                         LAMBDA s3 : poll_buffered_batches(s3))))
    ELSE [s EXCEPT !.poll = "Ready"]

compare_streamed_buffered(s) ==
    IF s.streamed_state = "Exhausted" THEN "Greater"
    ELSE IF ~has_buffered_rows(s.buffered_data) THEN "Less"
    ELSE compare_join_arrays(s.streamed_batch.join_arrays, s.streamed_batch.idx,
                             s.buffered_data.batches[1].join_arrays,
                             s.buffered_data.batches[1].range.start,
                             s.sort_options, s.null_equality)

(***************************************************************************)
(* join_partial.                                                           *)
(***************************************************************************)
\* The `while` over the buffered rows being scanned.
RECURSIVE join_scan(_, _)
join_scan(s, join_streamed) ==
    IF ~scanning_finished(s.buffered_data) /\ s.output_size < s.batch_size
    THEN Let(IF join_streamed
             THEN [s EXCEPT !.streamed_batch =
                        append_output_pair(@, s.buffered_data.scanning_batch_idx,
                                           scanning_idx(s.buffered_data))]
             ELSE [s EXCEPT !.buffered_data.batches
                                [s.buffered_data.scanning_batch_idx + 1].null_joined =
                        Append(@, scanning_idx(s.buffered_data))],
             LAMBDA s1 :
         Let([s1 EXCEPT !.output_size = @ + 1,
                        !.buffered_data = scanning_advance(@)],
             LAMBDA s2 :
                join_scan(IF scanning_finished(s2.buffered_data)
                          THEN [s2 EXCEPT !.streamed_joined = join_streamed,
                                          !.buffered_joined = TRUE]
                          ELSE s2,
                          join_streamed)))
    ELSE s

join_partial(s) ==
    LET jt == s.join_type
        ord == s.current_ordering
        has_filter == is_some(s.filter)
        mark_row_as_match == ord = "Equal" /\ jt = "LeftMark"
        semi_streamed ==
            IF has_filter
            THEN ~(s.streamed_batch.idx \in s.streamed_batch.join_filter_matched_idxs)
                    /\ ~s.streamed_joined
            ELSE ~s.streamed_joined
        join_streamed ==
            IF ord = "Less"
            THEN jt \in {"Left", "Right", "Full", "LeftAnti", "RightAnti", "LeftMark"}
                    /\ ~s.streamed_joined
            ELSE IF ord = "Equal"
            THEN IF jt \in {"LeftAnti", "RightAnti"} /\ has_filter
                 THEN ~s.streamed_joined
                 ELSE IF jt \in {"Inner", "Left", "Right", "Full"} THEN TRUE
                 ELSE IF jt \in {"LeftSemi", "LeftMark", "RightSemi"}
                 THEN semi_streamed
                 ELSE FALSE
            ELSE FALSE
        join_buffered ==
            IF ord = "Less" THEN FALSE
            ELSE IF ord = "Equal"
            THEN IF jt \in {"LeftAnti", "RightAnti"} /\ has_filter
                 THEN join_streamed
                 ELSE IF jt \in {"Inner", "Left", "Right", "Full"} THEN TRUE
                 ELSE IF jt \in {"LeftSemi", "LeftMark", "RightSemi"}
                 THEN has_filter /\ join_streamed
                 ELSE FALSE
            ELSE jt = "Full" /\ ~s.buffered_joined
    IN  IF ~join_streamed /\ ~join_buffered
        THEN [s EXCEPT !.buffered_data = scanning_finish(@)]
        ELSE IF join_buffered THEN join_scan(s, join_streamed)
        ELSE LET scanning_batch_idx ==
                    IF scanning_finished(s.buffered_data) THEN NULL
                    ELSE s.buffered_data.scanning_batch_idx
                 scanning_index == IF mark_row_as_match THEN 0 ELSE NULL
             IN  [s EXCEPT
                    !.streamed_batch =
                        append_output_pair(@, scanning_batch_idx, scanning_index),
                    !.output_size = @ + 1,
                    !.buffered_data = scanning_finish(@),
                    !.streamed_joined = TRUE]

(***************************************************************************)
(* poll_next: one iteration of its loop per state.  The result has the     *)
(* field `ret`: "continue" when the loop goes on, else what is returned.   *)
(***************************************************************************)
Ret(s, r) ==
    [stream |-> [s EXCEPT !.poll = "Ready"], ret |-> IF s.err THEN "err" ELSE r]

is_filtered(s) == is_some(s.filter) /\ s.join_type \in FilteredTypes

\* The filtered joins' part of the Init state: what is staged is filtered
\* into `output`, which is returned once it holds batch_size rows.
state_Init_filtered(s) ==
    Try(freeze_all(s), LAMBDA s1 :
        IF Len(s1.staging_output_record_batches.batches) # 0
        THEN Try(filter_joined_batch(s1), LAMBDA s2 :
             \* concat_batches reads one column per field of the schema from
             \* every batch and panics on a batch that has fewer.
             IF Len(s2.out) < s.schema THEN Fail(s2) ELSE
             Let(concat_batches(s.schema, <<s2.output, s2.out>>), LAMBDA joined :
                IF num_rows(joined) >= s.batch_size
                THEN [s2 EXCEPT !.out = joined, !.output = new_empty(s.schema),
                                !.poll = "Return"]
                ELSE [s2 EXCEPT !.output = joined]))
        ELSE s1)

\* An Init state that schedules both sides whatever the comparison was.
state_Init_both_sides(s) ==
    IF s.streamed_state = "Exhausted" /\ s.buffered_state = "Exhausted"
    THEN Ret([s EXCEPT !.state = "Exhausted"], "continue")
    ELSE Ret([s EXCEPT
                !.streamed_joined = IF s.streamed_state # "Exhausted" THEN FALSE ELSE @,
                !.streamed_state = IF @ # "Exhausted" THEN "Init" ELSE @,
                !.buffered_joined = IF s.buffered_state # "Exhausted" THEN FALSE ELSE @,
                !.buffered_state = IF @ # "Exhausted" THEN "Init" ELSE @,
                !.state = "Polling"], "continue")

state_Init(s) ==
    IF s.streamed_state = "Exhausted" /\ s.buffered_state = "Exhausted"
    THEN Ret([s EXCEPT !.state = "Exhausted"], "continue")
    ELSE IF s.current_ordering \in {"Less", "Equal"}
    THEN IF s.streamed_state # "Exhausted"
         THEN Let(IF is_filtered(s) THEN state_Init_filtered(s) ELSE s, LAMBDA s3 :
                IF s3.err THEN Ret(s3, "err")
                ELSE IF s3.poll = "Return"
                THEN Ret([s3 EXCEPT !.poll = "Ready"], "batch")
                ELSE Ret([s3 EXCEPT !.streamed_joined = FALSE,
                                    !.streamed_state = "Init",
                                    !.state = "Polling"], "continue"))
         ELSE Ret([s EXCEPT !.state = "Polling"], "continue")
    ELSE IF s.buffered_state # "Exhausted"
    THEN Ret([s EXCEPT !.buffered_joined = FALSE, !.buffered_state = "Init",
                       !.state = "Polling"], "continue")
    ELSE Ret([s EXCEPT !.state = "Polling"], "continue")

\* A Polling state that, when the buffered input returns Pending, forgets
\* that the streamed side was polled.
state_Polling_repolls_streamed(s) ==
    Let(IF s.streamed_state \notin {"Exhausted", "Ready"}
        THEN poll_streamed_row(s) ELSE s,
        LAMBDA s1 :
            IF s1.err THEN Ret(s1, "err")
            ELSE IF s1.poll = "Pending" THEN Ret(s1, "pending")
            ELSE
            Let(IF s1.buffered_state \notin {"Exhausted", "Ready"}
                THEN poll_buffered_batches(s1) ELSE s1,
                LAMBDA s2 :
                    IF s2.err THEN Ret(s2, "err")
                    ELSE IF s2.poll = "Pending"
                    THEN Ret([s2 EXCEPT !.streamed_state =
                                IF @ = "Ready" THEN "Init" ELSE @], "pending")
                    ELSE IF s2.streamed_state = "Exhausted"
                                /\ s2.buffered_state = "Exhausted"
                    THEN Ret([s2 EXCEPT !.state = "Exhausted"], "continue")
                    ELSE Ret([s2 EXCEPT
                                !.current_ordering = compare_streamed_buffered(s2),
                                !.state = "JoinOutput"], "continue")))

state_Polling(s) ==
    Let(IF s.streamed_state \notin {"Exhausted", "Ready"}
        THEN poll_streamed_row(s) ELSE s,
        LAMBDA s1 :
            IF s1.err THEN Ret(s1, "err")
            ELSE IF s1.poll = "Pending" THEN Ret(s1, "pending")
            ELSE
            Let(IF s1.buffered_state \notin {"Exhausted", "Ready"}
                THEN poll_buffered_batches(s1) ELSE s1,
                LAMBDA s2 :
                    IF s2.err THEN Ret(s2, "err")
                    ELSE IF s2.poll = "Pending" THEN Ret(s2, "pending")
                    ELSE IF s2.streamed_state = "Exhausted"
                                /\ s2.buffered_state = "Exhausted"
                    THEN Ret([s2 EXCEPT !.state = "Exhausted"], "continue")
                    ELSE Ret([s2 EXCEPT
                                !.current_ordering = compare_streamed_buffered(s2),
                                !.state = "JoinOutput"], "continue")))

\* A JoinOutput state that returns what is staged without waiting for
\* batch_size rows.
join_output_unbatched(s) ==
    Let(join_partial(s), LAMBDA s1 :
    Let(freeze_all(s1), LAMBDA s2 :
        IF s2.err THEN Ret(s2, "err")
        ELSE IF Len(s2.staging_output_record_batches.batches) # 0
        THEN Ret(output_record_batch_and_reset(s2),
                 IF is_filtered(s) THEN "continue" ELSE "batch")
        ELSE IF scanning_finished(s2.buffered_data)
        THEN Ret([s2 EXCEPT !.buffered_data = scanning_reset(@),
                            !.state = "Init"], "continue")
        ELSE Ret(s2, "continue")))

\* A JoinOutput state that finds nothing staged and returns Pending.
join_output_pending(s) == Ret(s, "pending")

state_JoinOutput(s) ==
    Let(join_partial(s), LAMBDA s1 :
        IF s1.output_size < s1.batch_size
        THEN IF scanning_finished(s1.buffered_data)
             THEN Ret([s1 EXCEPT !.buffered_data = scanning_reset(@),
                                 !.state = "Init"], "continue")
             ELSE Ret(s1, "continue")
        ELSE Let(freeze_all(s1), LAMBDA s2 :
                IF s2.err THEN Ret(s2, "err")
                ELSE IF Len(s2.staging_output_record_batches.batches) # 0
                THEN Ret(output_record_batch_and_reset(s2),
                         IF is_filtered(s) THEN "continue" ELSE "batch")
                ELSE Ret(s2, "pending")))

\* An Exhausted state that returns Pending instead of what is left.
exhausted_pending(s) == Ret(s, "pending")

state_Exhausted(s) ==
    Let(freeze_all(s), LAMBDA s1 :
        IF s1.err THEN Ret(s1, "err")
        ELSE IF Len(s1.staging_output_record_batches.batches) # 0
        THEN IF is_filtered(s) THEN Ret(filter_joined_batch(s1), "batch")
             ELSE Ret(output_record_batch_and_reset(s1), "batch")
        ELSE IF num_rows(s1.output) > 0
        THEN Ret([s1 EXCEPT !.out = s1.output,
                            !.output = new_empty(Len(s1.output))], "batch")
        ELSE Ret(s1, "none"))

\* One iteration of the loop of poll_next.
poll_next_step(s) ==
    IF s.state = "Init" THEN state_Init(s)
    ELSE IF s.state = "Polling" THEN state_Polling(s)
    ELSE IF s.state = "JoinOutput" THEN state_JoinOutput(s)
    ELSE state_Exhausted(s)

(***************************************************************************)
(* The inputs of an execution.  A row of either input is its key columns   *)
(* followed by one column holding the row's position in that input, so     *)
(* that every row of the output can be traced to the rows it was made of.  *)
(***************************************************************************)
PayloadBase == MaxStreamedRows + MaxBufferedRows

DefaultSortOptions == [descending |-> FALSE, nulls_first |-> TRUE]

\* The key tuples of at most n rows, in the order SortMergeJoinExec requires
\* of its inputs.
KeyRows(n, keys, on_column) ==
    LET tuples == [Range(on_column) -> keys]
        sos == [k \in Range(on_column) |-> DefaultSortOptions]
        col(rows, k) == [i \in Range(Len(rows)) |-> rows[i][k]]
        cols(rows) == [k \in Range(on_column) |-> col(rows, k)]
        sorted(rows) ==
            \A i \in 1..(Len(rows) - 1) :
                compare_join_arrays(cols(rows), i - 1, cols(rows), i, sos,
                                    "NullEqualsNull") # "Greater"
    IN  {rows \in UNION {[Range(k) -> tuples] : k \in 0..n} : sorted(rows)}

\* The ways of cutting n rows into consecutive non-empty batches: the batch
\* number of every row.
Splits(n) ==
    {b \in [Range(n) -> Range(n)] :
        /\ n > 0 => b[1] = 1
        /\ \A i \in 1..(n - 1) : b[i + 1] \in {b[i], b[i] + 1}}

\* The batches of an input of ncols columns: rows are the key tuples, b the
\* batch of each row.  The columns after the keys hold the row's position,
\* and PayloadBase more than that.
InputBatches(rows, b, on_column, ncols) ==
    LET n == Len(rows)
        nb == IF n = 0 THEN 0 ELSE b[n]
        all == [i \in Range(n) |-> i]
        batch(j) ==
            LET In(i) == b[i] = j
                idxs == SelectSeq(all, In)
            IN  [c \in Range(ncols) |->
                    [k \in Range(Len(idxs)) |->
                        IF c <= on_column THEN rows[idxs[k]][c]
                        ELSE IF c = on_column + 1 THEN idxs[k] - 1
                        ELSE PayloadBase + idxs[k] - 1]]
    IN  [j \in Range(nb) |-> [kind |-> "Batch", batch |-> batch(j)]]

InputStream(items) ==
    [items |-> items, pos |-> 0, ended |-> FALSE, polled_after_end |-> FALSE]

\* All rows of an input stream, as one batch.
InputRows(up, ncols) ==
    LET IsBatch(x) == x.kind = "Batch"
        bs == SelectSeq(up.items, IsBatch)
    IN  concat_batches(ncols, [i \in Range(Len(bs)) |-> bs[i].batch])

\* SortMergeJoinExec::execute: the streamed input is the right one for the
\* Right, RightSemi and RightAnti joins and the left one otherwise.
StreamedIsRight(jt) == jt \in {"Right", "RightSemi", "RightAnti"}

\* The number of columns of the join's schema.
build_join_schema(jt, left_cols, right_cols) ==
    IF jt \in {"LeftSemi", "LeftAnti"} THEN left_cols
    ELSE IF jt \in {"RightSemi", "RightAnti"} THEN right_cols
    ELSE IF jt = "LeftMark" THEN left_cols + 1
    ELSE left_cols + right_cols

\* The pairs of row positions (left, right) a filter can be asked about: the
\* pairs with equal keys, and every streamed row against an all-null
\* buffered row.
FilterPairs(jt, srows, brows) ==
    LET oriented(i, j) == IF StreamedIsRight(jt) THEN <<j, i>> ELSE <<i, j>>
    IN  [real |-> {oriented(i - 1, j - 1) : <<i, j>> \in
                    {q \in Range(Len(srows)) \X Range(Len(brows)) :
                        srows[q[1]] = brows[q[2]]}},
         nulls |-> {oriented(i - 1, NULL) : i \in Range(Len(srows))}]

\* A filter over the two row-position columns, given by its value on every
\* pair; it is false on the pairs it is never asked about.
JoinFilter(on_column, tbl) ==
    [column_indices |-> <<[side |-> "Left", index |-> on_column],
                          [side |-> "Right", index |-> on_column]>>,
     true |-> {q \in DOMAIN tbl : tbl[q] = "T"},
     null0 |-> {q \in DOMAIN tbl : tbl[q] = "N0"},
     null1 |-> {q \in DOMAIN tbl : tbl[q] = "N1"}]

\* fvals: the values a filter may take on a pair of rows, nvals: on a streamed
\* row against nulls.  No values: no filter.
Filters(jt, on_column, srows, brows, fvals, nvals) ==
    IF fvals = {} THEN {None}
    ELSE LET fp == FilterPairs(jt, srows, brows)
             tbls == {t \in [fp.real \cup fp.nulls -> fvals \cup nvals] :
                        /\ \A q \in fp.real : t[q] \in fvals
                        /\ \A q \in fp.nulls : t[q] \in nvals}
         IN  {Some(JoinFilter(on_column, t)) : t \in tbls}

\* The answers of the memory pool to its first n requests.
PoolScripts(n, answers) == [Range(n) -> answers]

ZeroMetrics ==
    [input_batches |-> 0, input_rows |-> 0, output_batches |-> 0,
     output_rows |-> 0, peak_mem_used |-> 0, spill_count |-> 0,
     spilled_bytes |-> 0, spilled_rows |-> 0]

\* SortMergeJoinStream::try_new, over the chosen properties and inputs.
try_new(jt, on_column, scols, bcols, ne, bs, f, sitems, bitems, spill, grants, order) ==
    /\ schema = IF StreamedIsRight(jt) THEN build_join_schema(jt, bcols, scols)
                ELSE build_join_schema(jt, scols, bcols)
    /\ null_equality = ne
    /\ sort_options = [k \in Range(on_column) |-> DefaultSortOptions]
    /\ filter = f
    /\ join_type = jt
    /\ batch_size = bs
    /\ streamed_schema = scols
    /\ buffered_schema = bcols
    /\ on = on_column
    /\ spill_enabled = spill
    /\ hash_order = order
    /\ streamed = InputStream(sitems)
    /\ streamed_batch = StreamedBatch_new_empty(scols)
    /\ streamed_joined = FALSE
    /\ streamed_state = "Init"
    /\ buffered = InputStream(bitems)
    /\ buffered_data = [batches |-> <<>>, scanning_batch_idx |-> 0,
                        scanning_offset |-> 0]
    /\ buffered_joined = FALSE
    /\ buffered_state = "Init"
    /\ state = "Init"
    /\ staging_output_record_batches =
            [batches |-> <<>>, filter_mask |-> <<>>, row_indices |-> <<>>,
             batch_ids |-> <<>>]
    /\ output = new_empty(IF StreamedIsRight(jt)
                          THEN build_join_schema(jt, bcols, scols)
                          ELSE build_join_schema(jt, scols, bcols))
    /\ output_size = 0
    /\ current_ordering = "Equal"
    /\ join_metrics = ZeroMetrics
    /\ reservation = 0
    /\ pool = [answers |-> grants, pos |-> 0]
    /\ streamed_batch_counter = 0
    /\ emitted = <<>>
    /\ ret = "continue"
    /\ error = <<>>
    /\ call = <<>>
    /\ result = <<>>

\* The executions over all inputs within the bounds, for the given join
\* types, keys, null equalities, filter values and pool answers.  extras: the
\* numbers of columns <<streamed, buffered>> after the row position.
EqualWidths == {<<0, 0>>}
UnequalWidths == {<<1, 0>>, <<0, 1>>}

Executions(jts, ns, nb, keys, on_columns, extras, nes, fvals, nvals, spills, answers, orders) ==
    \E jt \in jts, oc \in on_columns, ne \in nes, bs \in Range(MaxBatchSize),
       spill \in spills, order \in orders, extra \in extras :
    \E srows \in KeyRows(ns, keys, oc), brows \in KeyRows(nb, keys, oc) :
    \E sb \in Splits(Len(srows)), bb \in Splits(Len(brows)),
       f \in Filters(jt, oc, srows, brows, fvals, nvals) :
    \E grants \in PoolScripts(IF Len(brows) = 0 THEN 0 ELSE bb[Len(brows)], answers) :
        try_new(jt, oc, oc + 1 + extra[1], oc + 1 + extra[2], ne, bs, f,
                InputBatches(srows, sb, oc, oc + 1 + extra[1]),
                InputBatches(brows, bb, oc, oc + 1 + extra[2]), spill, grants, order)

\* What an input returns besides batches with rows: Pending, an error, or a
\* batch without rows.
ItemOf(kind, ncols) ==
    IF kind = "Empty" THEN [kind |-> "Batch", batch |-> new_empty(ncols)]
    ELSE [kind |-> kind, batch |-> <<>>]

\* The scripts made of the items with at most one more item of the given
\* kinds put in at any place.
Interleavings(items, kinds, ncols) ==
    {items} \cup
    {SubSeq(items, 1, k) \o <<ItemOf(kind, ncols)>> \o SubSeq(items, k + 1, Len(items)) :
        k \in 0..Len(items), kind \in kinds}

\* The executions on one key column over inputs of two columns, without spill
\* or refusal, whose inputs also return items of the given kinds.
ExecutionsWith(jts, ns, nb, keys, fvals, nvals, skinds, bkinds) ==
    \E jt \in jts, bs \in Range(MaxBatchSize) :
    \E srows \in KeyRows(ns, keys, 1), brows \in KeyRows(nb, keys, 1) :
    \E sb \in Splits(Len(srows)), bb \in Splits(Len(brows)),
       f \in Filters(jt, 1, srows, brows, fvals, nvals) :
    \E sitems \in Interleavings(InputBatches(srows, sb, 1, 2), skinds, 2),
       bitems \in Interleavings(InputBatches(brows, bb, 1, 2), bkinds, 2) :
        try_new(jt, 1, 2, 2, "NullEqualsNothing", bs, f, sitems, bitems, FALSE,
                <<>>, "asc")

\* What SortMergeJoinExec::execute leaves when it returns an error: the
\* inputs are not executed and there is no stream to poll.
NoStream(jt, bs, f, sitems, bitems, e) ==
    /\ schema = build_join_schema(jt, 2, 2)
    /\ null_equality = "NullEqualsNothing"
    /\ sort_options = <<DefaultSortOptions>>
    /\ filter = f
    /\ join_type = jt
    /\ batch_size = bs
    /\ streamed_schema = 2
    /\ buffered_schema = 2
    /\ on = 1
    /\ spill_enabled = FALSE
    /\ hash_order = "asc"
    /\ streamed = InputStream(sitems)
    /\ streamed_batch = StreamedBatch_new_empty(2)
    /\ streamed_joined = FALSE
    /\ streamed_state = "Init"
    /\ buffered = InputStream(bitems)
    /\ buffered_data = [batches |-> <<>>, scanning_batch_idx |-> 0,
                        scanning_offset |-> 0]
    /\ buffered_joined = FALSE
    /\ buffered_state = "Init"
    /\ state = "NoStream"
    /\ staging_output_record_batches =
            [batches |-> <<>>, filter_mask |-> <<>>, row_indices |-> <<>>,
             batch_ids |-> <<>>]
    /\ output = new_empty(build_join_schema(jt, 2, 2))
    /\ output_size = 0
    /\ current_ordering = "Equal"
    /\ join_metrics = ZeroMetrics
    /\ reservation = 0
    /\ pool = [answers |-> <<>>, pos |-> 0]
    /\ streamed_batch_counter = 0
    /\ emitted = <<>>
    /\ ret = "err"
    /\ error = <<e>>
    /\ call = <<>>
    /\ result = <<>>

\* SortMergeJoinExec::execute of a partition, the children reporting the
\* given partition counts.
execute(left_partitions, right_partitions, jt, bs, f, sitems, bitems) ==
    IF left_partitions # right_partitions
    THEN NoStream(jt, bs, f, sitems, bitems,
                  internal_err(<<"Invalid SortMergeJoinExec, partition count mismatch ",
                                 ToString(left_partitions), "!=",
                                 ToString(right_partitions),
                                 ", consider using RepartitionExec">>))
    ELSE try_new(jt, 1, 2, 2, "NullEqualsNothing", bs, f, sitems, bitems, FALSE,
                 <<>>, "asc")

\* Executions of a partition over children with any partition counts.
Executed(jts, ns, nb, keys) ==
    \E left_partitions, right_partitions \in 1..MaxPartitions :
    \E jt \in jts, bs \in Range(MaxBatchSize) :
    \E srows \in KeyRows(ns, keys, 1), brows \in KeyRows(nb, keys, 1) :
    \E sb \in Splits(Len(srows)), bb \in Splits(Len(brows)) :
        execute(left_partitions, right_partitions, jt, bs, None,
                InputBatches(srows, sb, 1, 2), InputBatches(brows, bb, 1, 2))

(***************************************************************************)
(* Calls of the free functions of the file.  There is no stream: the call  *)
(* and what it returned are the state.                                     *)
(***************************************************************************)
\* No stream is polled: the variables of the stream are at rest, but for the
\* streamed batch sb when a method of StreamedBatch is called on it.
AtRest(sb, c) ==
    /\ schema = 0
    /\ null_equality = "NullEqualsNothing"
    /\ sort_options = <<>>
    /\ filter = None
    /\ join_type = "Inner"
    /\ batch_size = 1
    /\ streamed_schema = 0
    /\ buffered_schema = 0
    /\ on = 0
    /\ spill_enabled = FALSE
    /\ hash_order = "asc"
    /\ streamed = InputStream(<<>>)
    /\ streamed_batch = sb
    /\ streamed_joined = FALSE
    /\ streamed_state = "Init"
    /\ buffered = InputStream(<<>>)
    /\ buffered_data = [batches |-> <<>>, scanning_batch_idx |-> 0,
                        scanning_offset |-> 0]
    /\ buffered_joined = FALSE
    /\ buffered_state = "Init"
    /\ state = "NoStream"
    /\ staging_output_record_batches =
            [batches |-> <<>>, filter_mask |-> <<>>, row_indices |-> <<>>,
             batch_ids |-> <<>>]
    /\ output = <<>>
    /\ output_size = 0
    /\ current_ordering = "Equal"
    /\ join_metrics = ZeroMetrics
    /\ reservation = 0
    /\ pool = [answers |-> <<>>, pos |-> 0]
    /\ streamed_batch_counter = 0
    /\ emitted = <<>>
    /\ ret = "continue"
    /\ error = <<>>
    /\ call = c
    /\ result = None

Calling(c) == AtRest(StreamedBatch_new_empty(0), Some(c))

Returns(fn, value) ==
    /\ is_some(call) /\ call[1].fn = fn /\ is_none(result)
    /\ result' = Some(value)
    /\ UNCHANGED <<stream_vars, call>>

\* How the streamed rows of consecutive groups of pairs differ: in the row
\* index within one streamed batch, in the batch, or in either by turns.
\* Streamed batches are numbered from 1.
GroupLayouts == {"rows", "batches", "mixed"}

GroupBatchId(layout, k) ==
    IF layout = "rows" THEN 1
    ELSE IF layout = "batches" THEN k
    ELSE ((k - 1) \div 2) + 1

GroupRowIndex(layout, k) ==
    IF layout = "rows" THEN k - 1
    ELSE IF layout = "batches" THEN 0
    ELSE (k - 1) % 2

\* The calls of get_corrected_filter_mask made by filter_joined_batch: the
\* pairs of a streamed row are adjacent, the raw mask has the given values,
\* and the batch has at least as many rows as there are pairs.
MaskCall(jt, layout, g, m, pad) ==
    [fn |-> "get_corrected_filter_mask", join_type |-> jt,
     row_indices |-> [i \in Range(Len(m)) |-> GroupRowIndex(layout, g[i])],
     batch_ids |-> [i \in Range(Len(m)) |-> GroupBatchId(layout, g[i])],
     filter_mask |-> m, expected_size |-> Len(m) + pad]

MaskCalls(jts, mvals) ==
    UNION {UNION {{MaskCall(jt, layout, g, m, pad) :
                        jt \in jts, layout \in GroupLayouts, pad \in 0..MaxPadding,
                        g \in Splits(k)} :
                   m \in [Range(k) -> mvals]} :
           k \in 0..MaxPairs}

\* The calls made for a Full join: the filter's result keeps its nulls, with
\* either value bit, and the group `ng`, if there is one, is of buffered rows
\* staged by freeze_buffered: null row index, batch id 0 and null mask.
FullMaskCall(layout, g, m, ng) ==
    [fn |-> "get_corrected_filter_mask", join_type |-> "Full",
     row_indices |-> [i \in Range(Len(m)) |->
                        IF g[i] = ng THEN NULL ELSE GroupRowIndex(layout, g[i])],
     batch_ids |-> [i \in Range(Len(m)) |->
                        IF g[i] = ng THEN 0 ELSE GroupBatchId(layout, g[i])],
     filter_mask |-> [i \in Range(Len(m)) |-> IF g[i] = ng THEN "N0" ELSE m[i]],
     expected_size |-> Len(m)]

FullMaskCalls(mvals) ==
    UNION {UNION {{FullMaskCall(layout, g, m, ng) :
                        layout \in GroupLayouts, g \in Splits(k), ng \in 0..k} :
                   m \in [Range(k) -> mvals]} :
           k \in 0..MaxPairs}

call_get_corrected_filter_mask ==
    Returns("get_corrected_filter_mask",
            get_corrected_filter_mask(call[1].join_type, call[1].row_indices,
                                      call[1].batch_ids, call[1].filter_mask,
                                      call[1].expected_size))

\* A key column of two rows with the value v at the given row.
KeyColumn(v, row) == IF row = 0 THEN <<v, NULL>> ELSE <<NULL, v>>

AllSortOptions ==
    {[descending |-> d, nulls_first |-> nf] : d \in BOOLEAN, nf \in BOOLEAN}

\* A call of one of the two comparisons on the key of one row of each side.
CompareCall(fn, lv, left, rv, right, sos, ne) ==
    [fn |-> fn,
     left_arrays |-> [k \in Range(Len(lv)) |-> KeyColumn(lv[k], left)],
     left |-> left,
     right_arrays |-> [k \in Range(Len(rv)) |-> KeyColumn(rv[k], right)],
     right |-> right, sort_options |-> sos, null_equality |-> ne]

\* The calls of the given functions: keys of as many columns as there are
\* sort options, values being null or not.
CompareCalls(fns) ==
    \E n \in 0..MaxKeyColumns, fn \in fns, left \in 0..1, right \in 0..1,
       ne \in {"NullEqualsNothing", "NullEqualsNull"} :
    \E lv \in [Range(n) -> {NULL} \cup 1..MaxKey],
       rv \in [Range(n) -> {NULL} \cup 1..MaxKey],
       sos \in [Range(n) -> AllSortOptions] :
        Calling(CompareCall(fn, lv, left, rv, right, sos, ne))

call_compare_join_arrays ==
    Returns("compare_join_arrays",
            compare_join_arrays(call[1].left_arrays, call[1].left,
                                call[1].right_arrays, call[1].right,
                                call[1].sort_options, call[1].null_equality))

call_is_join_arrays_equal ==
    Returns("is_join_arrays_equal",
            is_join_arrays_equal(call[1].left_arrays, call[1].left,
                                 call[1].right_arrays, call[1].right))

InitCompare == CompareCalls({"compare_join_arrays", "is_join_arrays_equal"})

NextCompare ==
    \/ call_compare_join_arrays
    \/ call_is_join_arrays_equal

SpecCompare == InitCompare /\ [][NextCompare]_vars

\* Calls for the join types whose raw mask has no null: freeze_streamed
\* replaces the nulls of the filter's result for all but Full.
InitMask ==
    \E c \in MaskCalls(FilteredTypes \ {"Full"}, {"T", "F"})
               \cup FullMaskCalls({"T", "F", "N0", "N1"}) :
        Calling(c)

NextMask == call_get_corrected_filter_mask

SpecMask == InitMask /\ [][NextMask]_vars

(***************************************************************************)
(* A StreamedBatch under its methods: append_output_pair, the advance of   *)
(* its cursor and the clear of its chunks that ends freeze_streamed.       *)
(***************************************************************************)
RECURSIVE SumOf(_)
SumOf(q) == IF Len(q) = 0 THEN 0 ELSE Head(q) + SumOf(Tail(q))

\* The pairs in the chunks of a streamed batch.
PendingPairsOf(sb) ==
    SumOf([c \in Range(Len(sb.output_indices)) |->
            Len(sb.output_indices[c].streamed_indices)])

\* append_output_pair(Some(batch), Some(row)) or append_output_pair(None,
\* None): the pair of the current streamed row with a buffered row or with
\* nulls.  `call` keeps the arguments of the last call.
call_append_output_pair ==
    /\ state = "NoStream" /\ num_rows(streamed_batch.batch) > 0
    /\ PendingPairsOf(streamed_batch) < MaxPairs
    /\ \E buffered_batch_idx \in {NULL} \cup 0..(MaxBufferedBatches - 1),
          buffered_idx \in {NULL} \cup 0..(MaxBufferedRows - 1) :
        /\ buffered_batch_idx = NULL <=> buffered_idx = NULL
        /\ streamed_batch' =
            append_output_pair(streamed_batch, buffered_batch_idx, buffered_idx)
        /\ call' = Some([fn |-> "append_output_pair",
                         buffered_batch_idx |-> buffered_batch_idx,
                         buffered_idx |-> buffered_idx])
    /\ UNCHANGED <<props, streamed, streamed_joined, streamed_state, buffered,
                   buffered_data, buffered_joined, buffered_state, state,
                   staging_output_record_batches, output, output_size,
                   current_ordering, join_metrics, reservation, pool,
                   streamed_batch_counter, emitted, ret, error, result>>

\* poll_streamed_row in StreamedState::Init: the cursor moves to the next
\* row of the batch.
call_advance_idx ==
    /\ state = "NoStream"
    /\ streamed_batch.idx + 1 < num_rows(streamed_batch.batch)
    /\ streamed_batch' = [streamed_batch EXCEPT !.idx = @ + 1]
    /\ UNCHANGED <<props, streamed, streamed_joined, streamed_state, buffered,
                   buffered_data, buffered_joined, buffered_state, state,
                   staging_output_record_batches, output, output_size,
                   current_ordering, join_metrics, reservation, pool,
                   streamed_batch_counter, emitted, ret, error, call, result>>

\* The end of freeze_streamed: self.streamed_batch.output_indices.clear().
call_output_indices_clear ==
    /\ state = "NoStream" /\ Len(streamed_batch.output_indices) > 0
    /\ streamed_batch' = [streamed_batch EXCEPT !.output_indices = <<>>]
    /\ UNCHANGED <<props, streamed, streamed_joined, streamed_state, buffered,
                   buffered_data, buffered_joined, buffered_state, state,
                   staging_output_record_batches, output, output_size,
                   current_ordering, join_metrics, reservation, pool,
                   streamed_batch_counter, emitted, ret, error, call, result>>

\* A streamed batch of 1..MaxStreamedRows rows as StreamedBatch::new leaves
\* it.
InitAppend ==
    \E n \in 1..MaxStreamedRows :
        AtRest(StreamedBatch_new(<<[i \in Range(n) |-> 1], [i \in Range(n) |-> i - 1]>>, 1),
               None)

NextAppend ==
    \/ call_append_output_pair
    \/ call_advance_idx
    \/ call_output_indices_clear

SpecAppend == InitAppend /\ [][NextAppend]_vars

(***************************************************************************)
(* The actions: one turn of the loop of poll_next in each of its states.   *)
(* A call of poll_next is the turns up to one that returns.                *)
(***************************************************************************)
Commit(r) ==
    /\ streamed' = r.stream.streamed
    /\ streamed_batch' = r.stream.streamed_batch
    /\ streamed_joined' = r.stream.streamed_joined
    /\ streamed_state' = r.stream.streamed_state
    /\ buffered' = r.stream.buffered
    /\ buffered_data' = r.stream.buffered_data
    /\ buffered_joined' = r.stream.buffered_joined
    /\ buffered_state' = r.stream.buffered_state
    /\ state' = r.stream.state
    /\ staging_output_record_batches' = r.stream.staging_output_record_batches
    /\ output' = r.stream.output
    /\ output_size' = r.stream.output_size
    /\ current_ordering' = r.stream.current_ordering
    /\ join_metrics' = r.stream.join_metrics
    /\ reservation' = r.stream.reservation
    /\ pool' = r.stream.pool
    /\ streamed_batch_counter' = r.stream.streamed_batch_counter
    /\ emitted' = IF r.ret = "batch" THEN Append(emitted, r.stream.out)
                  ELSE emitted
    /\ ret' = r.ret
    /\ error' = IF r.ret # "err" THEN error
                ELSE IF r.stream.failure = <<>> THEN <<OtherError>>
                ELSE r.stream.failure
    /\ UNCHANGED <<props, call, result>>

\* The stream is polled until it has returned the end of the stream.
poll_next_Init == state = "Init" /\ ret # "none" /\ Commit(state_Init(Self))

poll_next_Polling ==
    state = "Polling" /\ ret # "none" /\ Commit(state_Polling(Self))

poll_next_JoinOutput ==
    state = "JoinOutput" /\ ret # "none" /\ Commit(state_JoinOutput(Self))

poll_next_Exhausted ==
    state = "Exhausted" /\ ret # "none" /\ Commit(state_Exhausted(Self))

Next ==
    \/ poll_next_Init
    \/ poll_next_Polling
    \/ poll_next_JoinOutput
    \/ poll_next_Exhausted

\* Inner joins without filter.
InitInner ==
    \/ Executions({"Inner"}, MaxStreamedRows, MaxBufferedRows, 1..MaxKey, {1},
                  EqualWidths, {"NullEqualsNothing"}, {}, {}, {FALSE}, {TRUE}, {"asc"})
    \/ Executions({"Inner"}, MaxWideRows, MaxWideRows, 1..MaxKey, {1},
                  UnequalWidths, {"NullEqualsNothing"}, {}, {}, {FALSE}, {TRUE}, {"asc"})

SpecInner == InitInner /\ [][Next]_vars

\* The values of a filter on a pair of rows, and on a streamed row against
\* nulls.
FilterValues == {"T", "F", "N0"}

\* The joins of the given types, without and with filter, over inputs of
\* equal and of different widths.
InitOf(jts) ==
    \/ Executions(jts, MaxStreamedRows, MaxBufferedRows, 1..MaxKey, {1},
                  EqualWidths, {"NullEqualsNothing"}, {}, {}, {FALSE}, {TRUE}, {"asc"})
    \/ Executions(jts, MaxFilteredRows, MaxFilteredRows, 1..MaxKey, {1},
                  EqualWidths, {"NullEqualsNothing"}, FilterValues, FilterValues,
                  {FALSE}, {TRUE}, {"asc"})
    \/ Executions(jts, MaxWideRows, MaxWideRows, 1..MaxKey, {1},
                  UnequalWidths, {"NullEqualsNothing"}, {}, {}, {FALSE}, {TRUE}, {"asc"})
    \/ Executions(jts, MaxWideRows, MaxWideRows, 1..MaxKey, {1},
                  UnequalWidths, {"NullEqualsNothing"}, FilterValues, FilterValues,
                  {FALSE}, {TRUE}, {"asc"})

InitLeft == InitOf({"Left"})

SpecLeft == InitLeft /\ [][Next]_vars

InitAnti == InitOf({"LeftAnti", "RightAnti"})

SpecAnti == InitAnti /\ [][Next]_vars

InitSemi == InitOf({"LeftSemi", "RightSemi"})

SpecSemi == InitSemi /\ [][Next]_vars

\* Full joins: a null filter value is met with either content of its value
\* bit, and the not-matched map is iterated in either order.
InitFull ==
    \/ Executions({"Full"}, MaxStreamedRows, MaxBufferedRows, 1..MaxKey, {1},
                  EqualWidths, {"NullEqualsNothing"}, {}, {}, {FALSE}, {TRUE}, {"asc"})
    \/ Executions({"Full"}, MaxFilteredRows, MaxFilteredRows, 1..MaxKey, {1},
                  EqualWidths, {"NullEqualsNothing"}, FilterValues \cup {"N1"},
                  FilterValues, {FALSE}, {TRUE}, {"asc", "desc"})
    \/ Executions({"Full"}, MaxWideRows, MaxWideRows, 1..MaxKey, {1},
                  UnequalWidths, {"NullEqualsNothing"}, FilterValues, FilterValues,
                  {FALSE}, {TRUE}, {"asc"})

SpecFull == InitFull /\ [][Next]_vars

\* Full joins over one key with a filter whose result may be null, with
\* either value bit under the null.
InitFullFilter ==
    Executions({"Full"}, MaxFilteredRows, MaxFilteredRows, {1}, {1}, EqualWidths,
               {"NullEqualsNothing"}, {"T", "F", "N0", "N1"}, {"F"}, {FALSE}, {TRUE},
               {"asc"})

SpecFullFilter == InitFullFilter /\ [][Next]_vars

\* Inner joins on one or two key columns whose values may be null, under
\* either null equality.
InitNulls ==
    \/ Executions({"Inner"}, MaxStreamedRows, MaxBufferedRows, {NULL, 1, 2}, {1},
                  EqualWidths, {"NullEqualsNothing", "NullEqualsNull"}, {}, {},
                  {FALSE}, {TRUE}, {"asc"})
    \/ Executions({"Inner"}, MaxStreamedRows, MaxBufferedRows, {NULL, 1}, {2},
                  EqualWidths, {"NullEqualsNothing", "NullEqualsNull"}, {}, {},
                  {FALSE}, {TRUE}, {"asc"})

SpecNulls == InitNulls /\ [][Next]_vars

AllJoinTypes ==
    {"Inner", "Left", "Right", "Full", "LeftSemi", "RightSemi", "LeftAnti",
     "RightAnti", "LeftMark"}

\* Executions with disk spill enabled against a memory pool that grants or
\* refuses the growth asked for each buffered batch.
InitSpill ==
    \/ Executions(AllJoinTypes, MaxSpillRows, MaxBufferedRows, 1..MaxKey, {1},
                  EqualWidths, {"NullEqualsNothing"}, {}, {}, {TRUE},
                  {TRUE, FALSE}, {"asc"})
    \/ Executions(AllJoinTypes \ {"Inner"}, MaxSpillRows, MaxFilteredRows,
                  1..MaxKey, {1}, EqualWidths, {"NullEqualsNothing"},
                  {"T", "F"}, {"F"}, {TRUE}, {TRUE, FALSE}, {"asc"})

SpecSpill == InitSpill /\ [][Next]_vars

\* Executions with disk spill disabled against a memory pool that grants or
\* refuses the growth asked for each buffered batch.
InitNoSpill ==
    Executions(AllJoinTypes, MaxSpillRows, MaxBufferedRows, 1..MaxKey, {1},
               EqualWidths, {"NullEqualsNothing"}, {}, {}, {FALSE},
               {TRUE, FALSE}, {"asc"})

SpecNoSpill == InitNoSpill /\ [][Next]_vars

\* Executions of every join type, without and with a filter, whose inputs
\* may return Pending before a batch or before their end.
InitPending ==
    \/ ExecutionsWith(AllJoinTypes, MaxSpillRows, MaxSpillRows, 1..MaxKey, {}, {},
                      {"Pending"}, {"Pending"})
    \/ ExecutionsWith(AllJoinTypes \ {"Inner"}, MaxWideRows, MaxFilteredRows,
                      1..MaxKey, {"T", "F"}, {"F"}, {"Pending"}, {"Pending"})

SpecPending == InitPending /\ [][Next]_vars

\* The same over smaller inputs, with the task that owns the stream woken
\* after every Pending: it polls again until the stream has ended.
InitEnds ==
    \/ ExecutionsWith(AllJoinTypes, MaxWideRows, MaxFilteredRows, 1..MaxKey, {}, {},
                      {"Pending"}, {"Pending"})
    \/ ExecutionsWith(AllJoinTypes \ {"Inner"}, MaxWideRows, MaxWideRows,
                      1..MaxKey, {"T", "F"}, {"F"}, {"Pending"}, {"Pending"})

FairSpecEnds == InitEnds /\ [][Next]_vars /\ WF_vars(Next)

\* Executions of every join type without filter.
InitUnfiltered ==
    Executions(AllJoinTypes, MaxStreamedRows, MaxBufferedRows, 1..MaxKey, {1},
               EqualWidths, {"NullEqualsNothing"}, {}, {}, {FALSE}, {TRUE}, {"asc"})

SpecUnfiltered == InitUnfiltered /\ [][Next]_vars

\* Executions of every join type, without and with a filter, over every
\* split of the inputs into batches, a batch without rows among them.
InitBatching ==
    \/ ExecutionsWith(AllJoinTypes, MaxSpillRows, MaxFilteredRows, 1..MaxKey, {}, {},
                      {"Empty"}, {"Empty"})
    \/ ExecutionsWith(AllJoinTypes \ {"Inner"}, MaxFilteredRows, MaxFilteredRows,
                      {1}, {"T", "F"}, {"F"}, {"Empty"}, {"Empty"})

SpecBatching == InitBatching /\ [][Next]_vars

\* Executions, without filter, over children of equal and of different
\* partition counts.
InitExecute == Executed(AllJoinTypes, MaxSpillRows, MaxFilteredRows, 1..MaxKey)

SpecExecute == InitExecute /\ [][Next]_vars

\* Filtered joins over one key, the buffered rows being more than a batch
\* of output holds.
InitFilterPass ==
    ExecutionsWith(FilteredTypes, MaxFilteredRows, MaxBufferedRows, {1}, {"T", "F"},
                   {"F"}, {}, {})

SpecFilterPass == InitFilterPass /\ [][Next]_vars

\* Joins of every type but Full over one key with a filter whose result may
\* be null, with either value bit under the null.
InitNullFilter ==
    ExecutionsWith(AllJoinTypes \ {"Full"}, MaxFilteredRows, MaxFilteredRows, {1},
                   {"T", "F", "N0", "N1"}, {"F"}, {}, {})

SpecNullFilter == InitNullFilter /\ [][Next]_vars

\* Filtered joins of every type but Full over inputs of equal and of
\* different widths.
InitWidths ==
    Executions(FilteredTypes \ {"Full"}, MaxWideRows, MaxWideRows, 1..MaxKey, {1},
               EqualWidths \cup UnequalWidths, {"NullEqualsNothing"}, FilterValues,
               FilterValues, {FALSE}, {TRUE}, {"asc"})

SpecWidths == InitWidths /\ [][Next]_vars

InitOrdered == InitOf({"Inner", "Left", "Right"})

SpecOrdered == InitOrdered /\ [][Next]_vars

InitMark == InitOf({"LeftMark"})

SpecMark == InitMark /\ [][Next]_vars

(***************************************************************************)
(* What the caller has received, and the rows of the two inputs.           *)
(***************************************************************************)
RowsOf(batch) ==
    [i \in Range(num_rows(batch)) |-> [c \in Range(Len(batch)) |-> batch[c][i]]]

RECURSIVE Flatten(_)
Flatten(seqs) == IF Len(seqs) = 0 THEN <<>> ELSE Head(seqs) \o Flatten(Tail(seqs))

\* The rows returned so far, in order.
EmittedRows == Flatten([i \in Range(Len(emitted)) |-> RowsOf(emitted[i])])

SeqToSet(q) == {q[i] : i \in Range(Len(q))}

NoDuplicates(q) == \A i, j \in Range(Len(q)) : q[i] = q[j] => i = j

StreamedRows == RowsOf(InputRows(streamed, streamed_schema))
BufferedRows == RowsOf(InputRows(buffered, buffered_schema))

\* Two rows have equal keys: at every key position both are non-null and
\* equal, or both are null and nulls are equal.
KeysEqual(srow, brow) ==
    \A k \in Range(on) :
        \/ srow[k] # NULL /\ brow[k] # NULL /\ srow[k] = brow[k]
        \/ srow[k] = NULL /\ brow[k] = NULL /\ null_equality = "NullEqualsNull"

\* The stream has returned the end of the stream.
Finished == ret = "none"

\* C1: an Inner join without filter returns, by the end of the stream, exactly
\* one row for every pair of a streamed and a buffered row with equal keys,
\* the streamed row's columns followed by the buffered row's, and nothing
\* else; it never fails.
InnerJoinIsCrossProductPerKey ==
    (join_type = "Inner" /\ is_none(filter)) =>
        /\ ret # "err"
        /\ Finished =>
            /\ NoDuplicates(EmittedRows)
            /\ SeqToSet(EmittedRows) =
                {StreamedRows[i] \o BufferedRows[j] :
                    <<i, j>> \in {q \in Range(Len(StreamedRows))
                                        \X Range(Len(BufferedRows)) :
                                    KeysEqual(StreamedRows[q[1]],
                                              BufferedRows[q[2]])}}

\* A finished Inner join in which one key has two rows on each side and the
\* four joined rows did not fit one output batch.
InnerCrossProductReached ==
    /\ join_type = "Inner" /\ is_none(filter) /\ Finished
    /\ \E i1, i2 \in Range(Len(StreamedRows)), j1, j2 \in Range(Len(BufferedRows)) :
        /\ i1 # i2 /\ j1 # j2
        /\ KeysEqual(StreamedRows[i1], BufferedRows[j1])
        /\ KeysEqual(StreamedRows[i2], BufferedRows[j2])
        /\ KeysEqual(StreamedRows[i1], BufferedRows[j2])
    /\ Len(emitted) >= 2
    /\ Len(EmittedRows) >= 4

\* The filter's verdict on streamed row i and buffered row j: the pair
\* passes when the keys are equal and the filter, if any, is true on it.
FilterValue(sid, bid) ==
    IF StreamedIsRight(join_type) THEN evaluate_row(filter[1], bid, sid)
    ELSE evaluate_row(filter[1], sid, bid)

Passes(i, j) ==
    /\ KeysEqual(StreamedRows[i], BufferedRows[j])
    /\ is_none(filter)
        \/ FilterValue(StreamedRows[i][on + 1], BufferedRows[j][on + 1]) = "T"

HasMatch(i) == \E j \in Range(Len(BufferedRows)) : Passes(i, j)

NullRow(n) == [c \in Range(n) |-> NULL]

\* The output row of a streamed row with a buffered row or with nulls: the
\* left input's columns come first.
JoinedRow(srow, brow) == IF join_type = "Right" THEN brow \o srow ELSE srow \o brow

\* How often a row occurs in the output.
Occurrences(row) ==
    Cardinality({p \in Range(Len(EmittedRows)) : EmittedRows[p] = row})

\* The output rows made of streamed row i.
RowsOfStreamed(i) ==
    {p \in Range(Len(EmittedRows)) :
        IF join_type = "Right"
        THEN SubSeq(EmittedRows[p], buffered_schema + 1, schema) = StreamedRows[i]
        ELSE SubSeq(EmittedRows[p], 1, streamed_schema) = StreamedRows[i]}

\* C2: in a Left join that has ended, every row of the left input is in the
\* output either only joined to right rows of equal key that pass the filter,
\* at least one of them, or exactly once and then joined to nulls; the join
\* does not fail.
LeftRowJoinedOrNullJoinedOnce ==
    join_type = "Left" =>
        /\ ret # "err"
        /\ Finished =>
            \A i \in Range(Len(StreamedRows)) :
                LET nulled == Occurrences(JoinedRow(StreamedRows[i],
                                                    NullRow(buffered_schema)))
                    joined == {p \in RowsOfStreamed(i) :
                                \E j \in Range(Len(BufferedRows)) :
                                    /\ Passes(i, j)
                                    /\ EmittedRows[p] =
                                        JoinedRow(StreamedRows[i], BufferedRows[j])}
                IN  /\ Cardinality(RowsOfStreamed(i)) = nulled + Cardinality(joined)
                    /\ \/ joined # {} /\ nulled = 0
                       \/ joined = {} /\ nulled = 1

\* A finished Left join with filter in which one left row passes with one of
\* two right rows of its key, and another is rejected with every right row
\* of its key.
LeftFilteredBothCasesReached ==
    /\ join_type = "Left" /\ is_some(filter) /\ Finished
    /\ \E i1, i2 \in Range(Len(StreamedRows)), j1, j2 \in Range(Len(BufferedRows)) :
        /\ Passes(i1, j1)
        /\ KeysEqual(StreamedRows[i1], BufferedRows[j2]) /\ ~Passes(i1, j2)
        /\ KeysEqual(StreamedRows[i2], BufferedRows[j1]) /\ ~HasMatch(i2)
        /\ Occurrences(JoinedRow(StreamedRows[i2], NullRow(buffered_schema))) = 1

\* C3: a LeftAnti or RightAnti join that has ended has returned exactly the
\* streamed rows for which no buffered row has an equal key and passes the
\* filter, each of them once; it does not fail.
AntiJoinKeepsUnmatchedOnce ==
    join_type \in {"LeftAnti", "RightAnti"} =>
        /\ ret # "err"
        /\ Finished =>
            /\ NoDuplicates(EmittedRows)
            /\ SeqToSet(EmittedRows) =
                {StreamedRows[i] : i \in {k \in Range(Len(StreamedRows)) : ~HasMatch(k)}}

\* C4: a LeftSemi or RightSemi join that has ended has returned every
\* streamed row at most once, and exactly those for which some buffered row
\* has an equal key and passes the filter; it does not fail.
SemiJoinKeepsMatchedOnce ==
    join_type \in {"LeftSemi", "RightSemi"} =>
        /\ ret # "err"
        /\ Finished =>
            /\ NoDuplicates(EmittedRows)
            /\ SeqToSet(EmittedRows) =
                {StreamedRows[i] : i \in {k \in Range(Len(StreamedRows)) : HasMatch(k)}}

\* C8: a LeftMark join that has ended has returned every streamed row exactly
\* once, followed by one mark column and no buffered column, the mark being
\* true exactly when some buffered row has an equal key and passes the
\* filter; it does not fail.
MarkJoinMarksEveryRowOnce ==
    join_type = "LeftMark" =>
        /\ ret # "err"
        /\ Finished =>
            /\ Len(EmittedRows) = Len(StreamedRows)
            /\ \A i \in Range(Len(StreamedRows)) :
                \E p \in Range(Len(EmittedRows)) :
                    /\ Len(EmittedRows[p]) = streamed_schema + 1
                    /\ SubSeq(EmittedRows[p], 1, streamed_schema) = StreamedRows[i]
                    /\ EmittedRows[p][streamed_schema + 1] = HasMatch(i)

\* C5: a Full join that has ended has returned, each once and nothing else:
\* the rows of the Left join (every pair of equal keys that passes the
\* filter, and every left row without such a pair joined to nulls) and, for
\* every right row without such a pair, nulls joined to that right row; it
\* does not fail.
FullJoinIsLeftJoinPlusUnmatchedRight ==
    join_type = "Full" =>
        /\ ret # "err"
        /\ Finished =>
            /\ NoDuplicates(EmittedRows)
            /\ SeqToSet(EmittedRows) =
                {StreamedRows[q[1]] \o BufferedRows[q[2]] :
                    q \in {r \in Range(Len(StreamedRows)) \X Range(Len(BufferedRows)) :
                            Passes(r[1], r[2])}}
                \cup {StreamedRows[i] \o NullRow(buffered_schema) :
                        i \in {k \in Range(Len(StreamedRows)) : ~HasMatch(k)}}
                \cup {NullRow(streamed_schema) \o BufferedRows[j] :
                        j \in {k \in Range(Len(BufferedRows)) :
                                \A i \in Range(Len(StreamedRows)) : ~Passes(i, k)}}

\* The position in the streamed input of the streamed row an output row of an
\* Inner, Left or Right join was made of.
StreamedIdOf(row) ==
    IF join_type = "Right" THEN row[buffered_schema + on + 1] ELSE row[on + 1]

\* C6: in an Inner, Left or Right join the rows returned so far, taken over
\* all returned batches in order, follow the streamed input's order: no output
\* row of a later streamed row precedes an output row of an earlier one.
OutputPreservesStreamedOrder ==
    join_type \in {"Inner", "Left", "Right"} =>
        \A p, q \in Range(Len(EmittedRows)) :
            p < q => StreamedIdOf(EmittedRows[p]) <= StreamedIdOf(EmittedRows[q])

\* A filtered Right join has ended after returning several batches in which
\* a streamed row joined to nulls precedes a later streamed row joined to
\* two buffered rows.
StreamedOrderAcrossBatchesReached ==
    /\ join_type = "Right" /\ is_some(filter) /\ Finished
    /\ Len(emitted) >= 2
    /\ \E p, q, r \in Range(Len(EmittedRows)) :
        /\ p < q /\ q < r
        /\ EmittedRows[p][on + 1] = NULL
        /\ EmittedRows[q][on + 1] # NULL
        /\ StreamedIdOf(EmittedRows[p]) < StreamedIdOf(EmittedRows[q])
        /\ StreamedIdOf(EmittedRows[q]) = StreamedIdOf(EmittedRows[r])

\* The position in the buffered input of the buffered row of an output row,
\* NULL when the output row has nulls for the buffered side.
BufferedIdOf(row) ==
    IF join_type = "Right" THEN row[on + 1] ELSE row[streamed_schema + on + 1]

\* C7: among the rows returned so far, the rows that join one streamed row to
\* buffered rows follow the buffered input's order, whatever the buffered
\* batches and the batch size are.
MatchesFollowBufferedOrder ==
    join_type \in {"Inner", "Left", "Right", "Full"} =>
        \A p, q \in Range(Len(EmittedRows)) :
            /\ p < q
            /\ BufferedIdOf(EmittedRows[p]) # NULL
            /\ BufferedIdOf(EmittedRows[q]) # NULL
            /\ StreamedIdOf(EmittedRows[p]) # NULL
            /\ StreamedIdOf(EmittedRows[p]) = StreamedIdOf(EmittedRows[q])
            => BufferedIdOf(EmittedRows[p]) <= BufferedIdOf(EmittedRows[q])

\* One streamed row has been joined to three buffered rows that came in more
\* than one buffered batch, and its output rows are in more than one returned
\* batch.
MatchesAcrossBatchesReached ==
    /\ join_type \in {"Inner", "Left", "Right"} /\ Finished
    /\ Len(SelectSeq(buffered.items, LAMBDA x : x.kind = "Batch")) >= 2
    /\ \E i \in Range(Len(StreamedRows)) :
        /\ Cardinality(RowsOfStreamed(i)) = 3
        /\ \A p \in RowsOfStreamed(i) : BufferedIdOf(EmittedRows[p]) # NULL
        /\ \E b1, b2 \in Range(Len(emitted)) :
            /\ b1 # b2
            /\ \E r1 \in Range(num_rows(emitted[b1])), r2 \in Range(num_rows(emitted[b2])) :
                /\ StreamedIdOf(RowsOf(emitted[b1])[r1]) = StreamedRows[i][on + 1]
                /\ StreamedIdOf(RowsOf(emitted[b2])[r2]) = StreamedRows[i][on + 1]

\* The key of a row of an input is null at every position.
WholeKeyNull(row) == \A k \in Range(on) : row[k] = NULL

\* C9: an Inner join that has ended has returned a streamed row with a
\* buffered row, once, exactly when at every key position the two values are
\* non-null and equal, or both null and nulls equal nulls; when nulls equal
\* nothing no returned row has a null key, and when nulls equal nulls two
\* rows whose keys are null at every position are returned joined.
InnerJoinNullKeysFollowPolicy ==
    (join_type = "Inner" /\ is_none(filter)) =>
        /\ ret # "err"
        /\ Finished =>
            /\ NoDuplicates(EmittedRows)
            /\ \A i \in Range(Len(StreamedRows)), j \in Range(Len(BufferedRows)) :
                KeysEqual(StreamedRows[i], BufferedRows[j])
                    <=> Occurrences(StreamedRows[i] \o BufferedRows[j]) = 1
            /\ \A p \in Range(Len(EmittedRows)) :
                \E i \in Range(Len(StreamedRows)), j \in Range(Len(BufferedRows)) :
                    EmittedRows[p] = StreamedRows[i] \o BufferedRows[j]
            /\ null_equality = "NullEqualsNothing" =>
                \A p \in Range(Len(EmittedRows)), k \in Range(on) :
                    /\ EmittedRows[p][k] # NULL
                    /\ EmittedRows[p][streamed_schema + k] # NULL
            /\ null_equality = "NullEqualsNull" =>
                \A i \in Range(Len(StreamedRows)), j \in Range(Len(BufferedRows)) :
                    WholeKeyNull(StreamedRows[i]) /\ WholeKeyNull(BufferedRows[j])
                        => Occurrences(StreamedRows[i] \o BufferedRows[j]) = 1

\* An Inner join on two key columns under NullEqualsNull has ended having
\* joined two rows whose keys are null at every position and two rows whose
\* keys are null at one position only, with a streamed row of another key
\* left out.
NullKeysJoinedReached ==
    /\ join_type = "Inner" /\ on = 2 /\ null_equality = "NullEqualsNull" /\ Finished
    /\ \E i1, i2, i3 \in Range(Len(StreamedRows)), j1, j2 \in Range(Len(BufferedRows)) :
        /\ WholeKeyNull(StreamedRows[i1]) /\ WholeKeyNull(BufferedRows[j1])
        /\ Occurrences(StreamedRows[i1] \o BufferedRows[j1]) = 1
        /\ ~WholeKeyNull(StreamedRows[i2])
        /\ \E k \in Range(on) : StreamedRows[i2][k] = NULL
        /\ Occurrences(StreamedRows[i2] \o BufferedRows[j2]) = 1
        /\ \A j \in Range(Len(BufferedRows)) :
            ~KeysEqual(StreamedRows[i3], BufferedRows[j])

\* The stream as try_new leaves it over the same properties and inputs, with
\* a memory pool that gives the answers of the script.
Fresh(answers) ==
    [Self EXCEPT
        !.streamed = InputStream(streamed.items),
        !.streamed_batch = StreamedBatch_new_empty(streamed_schema),
        !.streamed_joined = FALSE,
        !.streamed_state = "Init",
        !.buffered = InputStream(buffered.items),
        !.buffered_data = [batches |-> <<>>, scanning_batch_idx |-> 0,
                           scanning_offset |-> 0],
        !.buffered_joined = FALSE,
        !.buffered_state = "Init",
        !.state = "Init",
        !.staging_output_record_batches =
            [batches |-> <<>>, filter_mask |-> <<>>, row_indices |-> <<>>,
             batch_ids |-> <<>>],
        !.output = new_empty(schema),
        !.output_size = 0,
        !.current_ordering = "Equal",
        !.join_metrics = ZeroMetrics,
        !.reservation = 0,
        !.pool = [answers |-> answers, pos |-> 0],
        !.streamed_batch_counter = 0]

\* The batches poll_next returns, from stream s on, up to the end of the
\* stream or a failure, and how it ended; at most `fuel` turns of its loop.
RECURSIVE RunToEnd(_, _, _)
RunToEnd(s, acc, fuel) ==
    IF fuel = 0 THEN [emitted |-> acc, ret |-> "continue", stream |-> s]
    ELSE Let(poll_next_step([s EXCEPT !.err = FALSE, !.failure = <<>>,
                                      !.poll = "Ready",
                                      !.out = <<>>]),
             LAMBDA r :
                IF r.ret \in {"none", "err"}
                THEN [emitted |-> acc, ret |-> r.ret, stream |-> r.stream]
                ELSE RunToEnd(r.stream,
                              IF r.ret = "batch" THEN Append(acc, r.stream.out)
                              ELSE acc,
                              fuel - 1))

\* The run over the same inputs in which every growth is granted.
GrantedRun == RunToEnd(Fresh(<<>>), <<>>, MaxSteps)

\* The run over the same inputs with a filter that is false wherever the
\* filter is null.
NullAsFalseRun ==
    RunToEnd([Fresh(pool.answers) EXCEPT
                !.filter = Some([filter[1] EXCEPT !.null0 = {}, !.null1 = {}])],
             <<>>, MaxSteps)

\* The rows of an input as one batch, or as no batch when it has no row.
AsOneBatch(up, ncols) ==
    IF num_rows(InputRows(up, ncols)) = 0 THEN <<>>
    ELSE <<[kind |-> "Batch", batch |-> InputRows(up, ncols)]>>

\* The run over the same rows when each input comes as one batch.
OneBatchRun ==
    RunToEnd([Fresh(pool.answers) EXCEPT
                !.streamed = InputStream(AsOneBatch(streamed, streamed_schema)),
                !.buffered = InputStream(AsOneBatch(buffered, buffered_schema))],
             <<>>, MaxSteps)

\* The pool has refused a growth.
SomeGrowthRefused == \E k \in Range(pool.pos) : ~pool.answers[k]

\* C10: with disk spill enabled, a join of any type that has ended has
\* returned the same batches in the same order as the run over the same
\* inputs in which every growth of the reservation is granted, and its spill
\* count is above 0 exactly when the pool has refused a growth; a run in
\* which every growth is granted has a spill count of 0.
SpillingKeepsOutputBatches ==
    spill_enabled =>
        /\ ret # "err"
        /\ Finished =>
            /\ GrantedRun.ret = "none"
            /\ emitted = GrantedRun.emitted
            /\ join_metrics.spill_count > 0 <=> SomeGrowthRefused
            /\ GrantedRun.stream.join_metrics.spill_count = 0

\* A join with spill enabled has ended after the pool refused one growth and
\* granted another, with a spill counted and rows of both buffered batches in
\* the two or more batches returned.
SpilledRunReached ==
    /\ spill_enabled /\ Finished
    /\ \E k1, k2 \in Range(pool.pos) : ~pool.answers[k1] /\ pool.answers[k2]
    /\ join_metrics.spill_count > 0
    /\ Len(emitted) >= 2
    /\ join_type = "Full"
    /\ \A j \in Range(Len(BufferedRows)) :
        \E p \in Range(Len(EmittedRows)) :
            BufferedIdOf(EmittedRows[p]) = BufferedRows[j][on + 1]

\* The sum of size_estimation over the batches held in memory.
RECURSIVE InMemorySize(_)
InMemorySize(batches) ==
    IF Len(batches) = 0 THEN 0
    ELSE (IF is_none(batches[1].spill_file) /\ is_some(batches[1].batch)
          THEN batches[1].size_estimation ELSE 0) + InMemorySize(Tail(batches))

\* In this step the pool refuses a growth while disk spill is disabled.
GrowthRefusedNoSpill ==
    /\ ~spill_enabled
    /\ pool'.pos > pool.pos
    /\ ~pool.answers[pool'.pos]

\* The error of a refused growth without disk spill.
IsDiskSpillingDisabledError(e) ==
    /\ Len(e) = 1
    /\ \E i \in Range(Len(e[1].message)) : e[1].message[i] = consumer_name
    /\ \E i \in Range(Len(e[1].message)) :
        e[1].message[i] = ". Disk spilling disabled."

\* C11: a step in which the pool refuses the growth for a new buffered batch
\* while disk spill is disabled returns an error that names the consumer and
\* says "Disk spilling disabled"; after it the refused batch is not in
\* BufferedData, the reservation is what the batches held in memory add up
\* to, and spill_count, spilled_bytes and spilled_rows are 0.
RefusedGrowthWithoutSpillFails ==
    [][GrowthRefusedNoSpill =>
        /\ ret' = "err"
        /\ IsDiskSpillingDisabledError(error')
        /\ \A i \in Range(Len(buffered_data'.batches)) :
            buffered_data'.batches[i].batch
                # Some(buffered'.items[buffered'.pos].batch)
        /\ reservation' = InMemorySize(buffered_data'.batches)
        /\ join_metrics'.spill_count = 0
        /\ join_metrics'.spilled_bytes = 0
        /\ join_metrics'.spilled_rows = 0]_vars

\* A growth has been refused without disk spill after another was granted:
\* the error has been returned while an earlier batch is held and reserved.
RefusedGrowthReached ==
    /\ ~spill_enabled /\ ret = "err"
    /\ IsDiskSpillingDisabledError(error)
    /\ pool.pos >= 2 /\ pool.answers[1] /\ ~pool.answers[pool.pos]
    /\ Len(buffered_data.batches) >= 1
    /\ reservation > 0

\* C12: in every state between two steps of the stream, the reservation is
\* the sum of size_estimation over the batches of BufferedData that are held
\* in memory; a spilled batch adds nothing when pushed and releases nothing
\* when dequeued.
ReservationIsInMemorySize ==
    reservation = InMemorySize(buffered_data.batches)

\* A spilled batch has been dequeued while a batch in memory is held: the
\* pool refused the first growth and granted a later one.
SpilledDequeuedInMemoryHeldReached ==
    /\ spill_enabled
    /\ pool.pos >= 2 /\ ~pool.answers[1] /\ pool.answers[2]
    /\ join_metrics.spill_count = 1
    /\ Len(buffered_data.batches) = 1
    /\ is_some(buffered_data.batches[1].batch)
    /\ reservation > 0

\* C13: when the stream has returned the end of the stream and no error,
\* BufferedData holds no batch and the reservation is 0.
EndOfStreamReleasesBuffered ==
    (Finished /\ error = <<>>) =>
        /\ Len(buffered_data.batches) = 0
        /\ reservation = 0

\* A join has ended without error after its streamed input ran out before
\* the buffered one: a buffered row in a second buffered batch has a key above
\* every streamed key, and batches were reserved in memory on the way.
StreamedExhaustedFirstReached ==
    /\ Finished /\ error = <<>>
    /\ join_metrics.peak_mem_used > 0
    /\ Len(StreamedRows) >= 1
    /\ Len(buffered.items) >= 2
    /\ \A i \in Range(Len(StreamedRows)) :
        StreamedRows[i][1] < BufferedRows[Len(BufferedRows)][1]
    /\ reservation = 0

\* C14: once poll_next has returned an error, no later step of the stream
\* returns a batch, an error or Pending, and none polls an input: the later
\* polls return the end of the stream.
ErrorsAreTerminal ==
    [][error # <<>> =>
        /\ ret' \in {"continue", "none"}
        /\ emitted' = emitted
        /\ streamed' = streamed
        /\ buffered' = buffered]_vars

TookPending(up, up_after) ==
    /\ up_after.pos > up.pos
    /\ up.items[up_after.pos].kind = "Pending"

\* C16: a step of poll_next returns Pending only when, in that step, the
\* streamed or the buffered input returned Pending; a step taken in the
\* JoinOutput state never returns Pending.
PendingOnlyFromInputs ==
    [][ret' = "pending" =>
        /\ TookPending(streamed, streamed') \/ TookPending(buffered, buffered')
        /\ state # "JoinOutput"]_vars

\* The stream has returned Pending from its Polling state, on a Pending of
\* the buffered input, after it had returned a batch.
PendingFromBufferedReached ==
    /\ ret = "pending" /\ state = "Polling"
    /\ buffered.pos >= 1
    /\ buffered.items[buffered.pos].kind = "Pending"
    /\ Len(emitted) >= 1

\* C17: a join without filter that has ended has returned batches of exactly
\* batch_size rows, but for the last one, which has at least one row and at
\* most batch_size.
UnfilteredBatchesHaveBatchSize ==
    (is_none(filter) /\ Finished) =>
        \A i \in Range(Len(emitted)) :
            IF i < Len(emitted) THEN num_rows(emitted[i]) = batch_size
            ELSE num_rows(emitted[i]) >= 1 /\ num_rows(emitted[i]) <= batch_size

\* A Full join without filter has ended after returning three batches or
\* more, the last of them smaller than batch_size.
SmallerLastBatchReached ==
    /\ is_none(filter) /\ Finished /\ join_type = "Full"
    /\ batch_size = MaxBatchSize
    /\ Len(emitted) >= 3
    /\ num_rows(emitted[Len(emitted)]) < batch_size

\* The rows of a sequence of batches, in order.
RowsOfBatches(batches) ==
    Flatten([i \in Range(Len(batches)) |-> RowsOf(batches[i])])

\* How often a row occurs in a sequence of rows.
CountIn(rows, row) == Cardinality({p \in Range(Len(rows)) : rows[p] = row})

SameBag(rows1, rows2) ==
    /\ Len(rows1) = Len(rows2)
    /\ \A p \in Range(Len(rows1)) : CountIn(rows1, rows1[p]) = CountIn(rows2, rows1[p])

\* C18: a join that has ended has returned the rows that the run over the
\* same rows returns when each input comes as one batch: the same sequence of
\* rows for every join type but Full, the same rows as often for Full.
OutputIndependentOfBatching ==
    Finished =>
        /\ OneBatchRun.ret = "none"
        /\ IF join_type = "Full"
           THEN SameBag(EmittedRows, RowsOfBatches(OneBatchRun.emitted))
           ELSE EmittedRows = RowsOfBatches(OneBatchRun.emitted)

\* A filtered Left join has ended with rows returned, its buffered input
\* having come as a batch without rows and two batches that share a key.
GroupAcrossBatchesReached ==
    /\ Finished /\ join_type = "Left" /\ ~is_none(filter)
    /\ Len(EmittedRows) >= 2
    /\ \E i, j, k \in Range(Len(buffered.items)) :
        /\ i < j
        /\ buffered.items[k].kind = "Batch" /\ num_rows(buffered.items[k].batch) = 0
        /\ buffered.items[i].kind = "Batch" /\ num_rows(buffered.items[i].batch) > 0
        /\ buffered.items[j].kind = "Batch" /\ num_rows(buffered.items[j].batch) > 0
        /\ buffered.items[i].batch[1][1] = buffered.items[j].batch[1][1]
    /\ \E i, j \in Range(Len(streamed.items)) :
        /\ i < j
        /\ num_rows(streamed.items[i].batch) > 0
        /\ num_rows(streamed.items[j].batch) > 0

\* C19: an execution over children that report different partition counts
\* has failed with an error of kind Plan and has polled neither input.
PartitionMismatchIsPlanError ==
    state = "NoStream" =>
        /\ ret = "err"
        /\ error # <<>> /\ error[1].kind = "Plan"
        /\ streamed.pos = 0 /\ buffered.pos = 0

\* The stream on which the next turn of poll_next calls
\* filter_joined_batch, as a Some, or None when the turn does not call it:
\* the Init state on the way to the next streamed row and the Exhausted
\* state call it, after freeze_all, when something is staged.
FilterPassAhead ==
    IF /\ is_filtered(Self) /\ ret # "none"
       /\ \/ state = "Exhausted"
          \/ /\ state = "Init"
             /\ ~(streamed_state = "Exhausted" /\ buffered_state = "Exhausted")
             /\ current_ordering \in {"Less", "Equal"}
             /\ streamed_state # "Exhausted"
    THEN Let(freeze_all(Self), LAMBDA s1 :
            IF ~s1.err /\ Len(s1.staging_output_record_batches.batches) # 0
            THEN Some(s1) ELSE None)
    ELSE None

\* The positions in staging of the pairs of the streamed row whose pair is at
\* position p.
StagedGroup(stg, p) ==
    {q \in Range(Len(stg.row_indices)) :
        /\ stg.row_indices[q] = stg.row_indices[p]
        /\ stg.batch_ids[q] = stg.batch_ids[p]}

\* The number of pairs join_partial makes of a streamed row: one with every
\* buffered row of equal key, or one without buffered row when there is none.
TentativePairs(srow) ==
    LET matches == {j \in Range(Len(BufferedRows)) :
                        /\ ~WholeKeyNull(srow)
                        /\ SubSeq(BufferedRows[j], 1, on) = SubSeq(srow, 1, on)}
    IN  IF matches = {} THEN 1 ELSE Cardinality(matches)

\* The streamed row at a row index of the batch that got a batch id: the
\* batches with rows are numbered from 1 as they are polled.
StreamedRowAt(batch_id, row_index) ==
    LET WithRows(x) == x.kind = "Batch" /\ num_rows(x.batch) > 0
    IN  RowsOf(SelectSeq(streamed.items, WithRows)[batch_id].batch)[row_index + 1]

StagedGroupsComplete(s) ==
    LET stg == s.staging_output_record_batches
    IN  /\ Len(stg.batch_ids) = Len(stg.row_indices)
        /\ \A p \in Range(Len(stg.row_indices)) :
            stg.row_indices[p] # NULL =>
                /\ \A q \in StagedGroup(stg, p) :
                    \A r \in Range(Len(stg.row_indices)) :
                        (p <= r /\ r <= q) => r \in StagedGroup(stg, p)
                /\ Cardinality(StagedGroup(stg, p)) =
                        TentativePairs(StreamedRowAt(stg.batch_ids[p],
                                                     stg.row_indices[p]))

\* C20: whenever a filtered join is about to compute the corrected mask,
\* every streamed row that has a pair in staging has all its pairs there, one
\* next to the other and under one batch id and row index.
FilterPassSeesWholeGroups ==
    is_some(FilterPassAhead) => StagedGroupsComplete(FilterPassAhead[1])

\* A filtered join is about to compute the corrected mask in its Init state
\* over a streamed row with more pairs than batch_size, staged by more than
\* one freeze.
GroupLargerThanBatchSizeReached ==
    /\ state = "Init" /\ is_some(FilterPassAhead)
    /\ LET stg == FilterPassAhead[1].staging_output_record_batches
       IN  /\ Len(stg.batches) > 1
           /\ \E p \in Range(Len(stg.row_indices)) :
                /\ stg.row_indices[p] # NULL
                /\ Cardinality(StagedGroup(stg, p)) > batch_size

\* get_corrected_filter_mask has returned for one of the given join types.
MaskReturned(jts) ==
    /\ is_some(call) /\ call[1].fn = "get_corrected_filter_mask"
    /\ call[1].join_type \in jts
    /\ is_some(result)

\* The mask returned by get_corrected_filter_mask.
CorrectedMask == result[1][1]

\* The positions of the pairs of the streamed row whose pair is at position i.
PairGroup(i) ==
    {j \in Range(Len(call[1].row_indices)) :
        /\ call[1].batch_ids[j] = call[1].batch_ids[i]
        /\ call[1].row_indices[j] = call[1].row_indices[i]}

LastOfGroup(i) == \A j \in PairGroup(i) : j <= i

GroupHasTrue(i) == \E j \in PairGroup(i) : call[1].filter_mask[j] = "T"

\* C21: for Left and Right the corrected mask has expected_size slots; the
\* slot of a pair is true iff the raw mask is true there, false iff the raw
\* mask is false there, the pair is the last of its streamed row and no pair
\* of that row is true, and null otherwise; the slots after the pairs are
\* false.
LeftMaskCorrected ==
    MaskReturned({"Left", "Right"}) =>
        /\ is_some(result[1])
        /\ Len(CorrectedMask) = call[1].expected_size
        /\ \A i \in Range(Len(call[1].row_indices)) :
            /\ CorrectedMask[i] = "T" <=> call[1].filter_mask[i] = "T"
            /\ CorrectedMask[i] = "F" <=>
                    /\ call[1].filter_mask[i] = "F"
                    /\ LastOfGroup(i) /\ ~GroupHasTrue(i)
            /\ CorrectedMask[i] \in {"T", "F"} \/ IsNullB(CorrectedMask[i])
        /\ \A i \in (Len(call[1].row_indices) + 1)..call[1].expected_size :
            CorrectedMask[i] = "F"

\* The raw mask false, false, true of one streamed row has been corrected
\* for a batch with one more row.
LeftMaskExampleReached ==
    /\ MaskReturned({"Left"})
    /\ call[1].filter_mask = <<"F", "F", "T">>
    /\ Cardinality(PairGroup(1)) = 3
    /\ call[1].expected_size = 4
    /\ IsNullB(CorrectedMask[1]) /\ IsNullB(CorrectedMask[2])
    /\ CorrectedMask[3] = "T" /\ CorrectedMask[4] = "F"

\* The first pair with raw mask true of the streamed row whose pair is at
\* position i, or 0 when the row has none.
FirstTrueOfGroup(i) ==
    IF GroupHasTrue(i)
    THEN CHOOSE j \in PairGroup(i) :
            /\ call[1].filter_mask[j] = "T"
            /\ \A k \in PairGroup(i) : call[1].filter_mask[k] = "T" => j <= k
    ELSE 0

\* C22: for Left and Right, within the pairs of one streamed row the first
\* pair with raw mask true becomes true and every pair after it becomes null,
\* so that a streamed row has at most one true slot.
LeftMaskKeepsFirstTrueOnly ==
    MaskReturned({"Left", "Right"}) =>
        \A i \in Range(Len(call[1].row_indices)) :
            /\ i = FirstTrueOfGroup(i) => CorrectedMask[i] = "T"
            /\ (GroupHasTrue(i) /\ i > FirstTrueOfGroup(i)) => IsNullB(CorrectedMask[i])
            /\ Cardinality({j \in PairGroup(i) : CorrectedMask[j] = "T"}) <= 1

\* C22 as the code has it: for Left and Right, within the pairs of one
\* streamed row every pair with raw mask true becomes true and every pair
\* with raw mask false after a true one becomes null, so that a streamed row
\* has as many true slots as it has pairs that pass the filter.
LeftMaskKeepsEveryTrue ==
    MaskReturned({"Left", "Right"}) =>
        \A i \in Range(Len(call[1].row_indices)) :
            /\ call[1].filter_mask[i] = "T" => CorrectedMask[i] = "T"
            /\ (call[1].filter_mask[i] = "F" /\ GroupHasTrue(i)
                    /\ i > FirstTrueOfGroup(i)) => IsNullB(CorrectedMask[i])
            /\ Cardinality({j \in PairGroup(i) : CorrectedMask[j] = "T"}) =
                    Cardinality({j \in PairGroup(i) : call[1].filter_mask[j] = "T"})

\* A streamed row of a Right join with the raw mask true, false, true has
\* got two true slots.
TwoTrueSlotsReached ==
    /\ MaskReturned({"Right"})
    /\ call[1].filter_mask = <<"T", "F", "T">>
    /\ Cardinality(PairGroup(1)) = 3
    /\ CorrectedMask[1] = "T" /\ IsNullB(CorrectedMask[2]) /\ CorrectedMask[3] = "T"

\* C23: for LeftSemi and RightSemi the corrected mask is as long as the raw
\* mask; among the pairs of one streamed row the first with raw mask true is
\* true and every other is null, all being null when none is true.
SemiMaskKeepsFirstTrue ==
    MaskReturned({"LeftSemi", "RightSemi"}) =>
        /\ is_some(result[1])
        /\ Len(CorrectedMask) = Len(call[1].filter_mask)
        /\ \A i \in Range(Len(call[1].row_indices)) :
            IF i = FirstTrueOfGroup(i) THEN CorrectedMask[i] = "T"
            ELSE IsNullB(CorrectedMask[i])

\* A semi join's call with rows after the pairs, two pairs of one streamed
\* row passing the filter and another streamed row with none passing.
SemiMaskBothCasesReached ==
    /\ MaskReturned({"RightSemi"})
    /\ call[1].expected_size > Len(call[1].filter_mask)
    /\ call[1].filter_mask = <<"F", "T", "T", "F">>
    /\ PairGroup(1) = {1, 2, 3} /\ PairGroup(4) = {4}
    /\ CorrectedMask[2] = "T" /\ IsNullB(CorrectedMask[3]) /\ IsNullB(CorrectedMask[4])

\* C24: for LeftAnti and RightAnti the slot of a pair that is not the last of
\* its streamed row is null, the slot of the last pair is true when no pair of
\* the row has raw mask true and null otherwise, and the slots after the
\* pairs, up to expected_size, are true.
AntiMaskAnswersAtLastPair ==
    MaskReturned({"LeftAnti", "RightAnti"}) =>
        /\ is_some(result[1])
        /\ Len(CorrectedMask) = call[1].expected_size
        /\ \A i \in Range(Len(call[1].row_indices)) :
            IF LastOfGroup(i) /\ ~GroupHasTrue(i) THEN CorrectedMask[i] = "T"
            ELSE IsNullB(CorrectedMask[i])
        /\ \A i \in (Len(call[1].row_indices) + 1)..call[1].expected_size :
            CorrectedMask[i] = "T"

\* An anti join's call with a row after the pairs, a streamed row without a
\* passing pair and one whose first pair passes.
AntiMaskBothCasesReached ==
    /\ MaskReturned({"LeftAnti"})
    /\ call[1].filter_mask = <<"F", "F", "T", "F">>
    /\ PairGroup(1) = {1, 2} /\ PairGroup(3) = {3, 4}
    /\ call[1].expected_size = 5
    /\ CorrectedMask = <<"N0", "T", "N0", "N0", "T">>

\* The pairs of the streamed row of the pair at position i are pairs with a
\* streamed row whose raw mask is not null.
RealGroup(i) ==
    \A j \in PairGroup(i) :
        call[1].row_indices[j] # NULL /\ call[1].filter_mask[j] \in {"T", "F"}

\* C25: for Full, among the pairs of one streamed row whose raw mask has no
\* null: when one is true, the slots of the true ones are true and all others
\* null; when none is true, one slot is false and all others are null.
FullMaskCorrected ==
    MaskReturned({"Full"}) =>
        /\ is_some(result[1])
        /\ \A i \in Range(Len(call[1].row_indices)) :
            RealGroup(i) =>
                IF GroupHasTrue(i)
                THEN IF call[1].filter_mask[i] = "T" THEN CorrectedMask[i] = "T"
                     ELSE IsNullB(CorrectedMask[i])
                ELSE /\ CorrectedMask[i] = "F" \/ IsNullB(CorrectedMask[i])
                     /\ Cardinality({j \in PairGroup(i) : CorrectedMask[j] = "F"}) = 1

\* A Full join's call with buffered rows staged null-joined between two
\* streamed rows: one with a passing pair after a failing one, one with two
\* failing pairs.
FullMaskBothCasesReached ==
    /\ MaskReturned({"Full"})
    /\ Len(call[1].filter_mask) = 4
    /\ call[1].filter_mask[1] = "F" /\ call[1].filter_mask[2] = "T"
    /\ PairGroup(1) = {1, 2}
    /\ call[1].row_indices[3] = NULL
    /\ call[1].filter_mask[4] = "F" /\ RealGroup(4)
    /\ IsNullB(CorrectedMask[1]) /\ CorrectedMask[2] = "T" /\ CorrectedMask[4] = "F"

\* Buffered row j was paired with a streamed row; the predicate passed for
\* one of its pairs.
BufferedPaired(j) ==
    \E i \in Range(Len(StreamedRows)) : KeysEqual(StreamedRows[i], BufferedRows[j])

BufferedPassed(j) == \E i \in Range(Len(StreamedRows)) : Passes(i, j)

\* Buffered row j is in a batch that BufferedData holds.
BufferedHeld(j) ==
    \E b \in Range(Len(buffered_data.batches)) :
        /\ is_some(buffered_data.batches[b].batch)
        /\ \E k \in Range(buffered_data.batches[b].num_rows) :
            RowsOf(buffered_data.batches[b].batch[1])[k] = BufferedRows[j]

\* C26: in a Full join with a filter, a buffered row that was paired and
\* whose pairs all failed the predicate is returned joined to nulls exactly
\* once by the end of the stream, and not while its batch is still buffered;
\* a buffered row with a passing pair is never returned joined to nulls.
\* The rows returned change only when a batch is returned.
FullJoinUnmatchedBufferedOnce ==
    (join_type = "Full" /\ is_some(filter) /\ ret \in {"batch", "none"}) =>
        \A j \in Range(Len(BufferedRows)) :
            LET n == Occurrences(NullRow(streamed_schema) \o BufferedRows[j])
            IN  /\ BufferedPassed(j) => n = 0
                /\ (BufferedPaired(j) /\ BufferedHeld(j)) => n = 0
                /\ (Finished /\ BufferedPaired(j) /\ ~BufferedPassed(j)) => n = 1

\* C27: a join of a type other than Full that has ended has returned the
\* batches it returns when the filter is false wherever it is null.
NullPredicateIsFalse ==
    (join_type # "Full" /\ is_some(filter) /\ Finished) =>
        /\ NullAsFalseRun.ret = "none"
        /\ emitted = NullAsFalseRun.emitted

\* A Left join has ended in which the only pair of a streamed row has a null
\* predicate with the value bit set, and the row was returned joined to
\* nulls.
NullPredicatePairReached ==
    /\ join_type = "Left" /\ is_some(filter) /\ Finished
    /\ \E i \in Range(Len(StreamedRows)) :
        /\ \E j \in Range(Len(BufferedRows)) :
            /\ KeysEqual(StreamedRows[i], BufferedRows[j])
            /\ FilterValue(StreamedRows[i][on + 1], BufferedRows[j][on + 1]) = "N1"
        /\ \A j \in Range(Len(BufferedRows)) :
            KeysEqual(StreamedRows[i], BufferedRows[j]) =>
                IsNullB(FilterValue(StreamedRows[i][on + 1], BufferedRows[j][on + 1]))
        /\ Occurrences(StreamedRows[i] \o NullRow(buffered_schema)) = 1

\* One of the two comparisons has returned.
Compared(fn) == is_some(call) /\ call[1].fn = fn /\ is_some(result)

\* The values compared at key position k.
LeftKey(k) == call[1].left_arrays[k][call[1].left + 1]
RightKey(k) == call[1].right_arrays[k][call[1].right + 1]

\* The order of the keys at position k, as C28 states it.
KeyOrder(k) ==
    LET so == call[1].sort_options[k]
    IN  CASE LeftKey(k) # NULL /\ RightKey(k) # NULL ->
                IF LeftKey(k) = RightKey(k) THEN "Equal"
                ELSE IF (LeftKey(k) < RightKey(k)) # so.descending
                THEN "Less" ELSE "Greater"
          [] LeftKey(k) = NULL /\ RightKey(k) # NULL ->
                IF so.nulls_first THEN "Less" ELSE "Greater"
          [] LeftKey(k) # NULL /\ RightKey(k) = NULL ->
                IF so.nulls_first THEN "Greater" ELSE "Less"
          [] OTHER ->
                IF call[1].null_equality = "NullEqualsNull" THEN "Equal" ELSE "Less"

\* C28: compare_join_arrays returns the order of the first key position whose
\* order is not Equal, and Equal when there is none; the order at a position
\* is the values' order, reversed iff descending, when both are non-null; Less
\* for the side holding the null iff nulls_first, whatever descending is, when
\* one is null; Equal under NullEqualsNull and Less under NullEqualsNothing
\* when both are null.
CompareIsFirstUnequalKey ==
    Compared("compare_join_arrays") =>
        LET unequal == {k \in Range(Len(call[1].sort_options)) : KeyOrder(k) # "Equal"}
        IN  IF unequal = {} THEN result[1] = "Equal"
            ELSE \E k \in unequal :
                    /\ \A j \in unequal : k <= j
                    /\ result[1] = KeyOrder(k)

\* Two keys have been compared that are equal at the first position and
\* have a null on the left at the second, which is descending with nulls
\* last.
CompareNullAfterEqualReached ==
    /\ Compared("compare_join_arrays")
    /\ Len(call[1].sort_options) = 2
    /\ LeftKey(1) # NULL /\ LeftKey(1) = RightKey(1)
    /\ LeftKey(2) = NULL /\ RightKey(2) # NULL
    /\ call[1].sort_options[2] = [descending |-> TRUE, nulls_first |-> FALSE]
    /\ result[1] = "Greater"

\* C29: is_join_arrays_equal returns true exactly when at every key position
\* the two values are both null or both non-null and equal, which is exactly
\* when compare_join_arrays returns Equal under NullEqualsNull, whatever the
\* sort options are.
FastEqualityIsCompareEqual ==
    Compared("is_join_arrays_equal") =>
        /\ result[1] <=>
            \A k \in Range(Len(call[1].left_arrays)) :
                \/ LeftKey(k) = NULL /\ RightKey(k) = NULL
                \/ LeftKey(k) # NULL /\ RightKey(k) # NULL /\ LeftKey(k) = RightKey(k)
        /\ \A sos \in [Range(Len(call[1].left_arrays)) -> AllSortOptions] :
            result[1] <=>
                compare_join_arrays(call[1].left_arrays, call[1].left,
                                    call[1].right_arrays, call[1].right,
                                    sos, "NullEqualsNull") = "Equal"

\* Two keys equal at the first position and null on both sides at the second
\* have been found equal.
FastEqualityOnNullsReached ==
    /\ Compared("is_join_arrays_equal")
    /\ Len(call[1].left_arrays) = 2
    /\ LeftKey(1) # NULL /\ LeftKey(1) = RightKey(1)
    /\ LeftKey(2) = NULL /\ RightKey(2) = NULL
    /\ result[1] = TRUE

\* C30: every BufferedBatch held in BufferedData has exactly one of a batch
\* in memory and a spill file: never both and never neither.
BufferedBatchInMemoryXorSpilled ==
    \A i \in Range(Len(buffered_data.batches)) :
        is_some(buffered_data.batches[i].batch)
            # is_some(buffered_data.batches[i].spill_file)

\* A spilled batch and a batch in memory are held together.
SpilledBesideInMemoryReached ==
    \E i, j \in Range(Len(buffered_data.batches)) :
        /\ is_some(buffered_data.batches[i].spill_file)
        /\ is_none(buffered_data.batches[i].batch)
        /\ is_some(buffered_data.batches[j].batch)
        /\ is_none(buffered_data.batches[j].spill_file)

(***************************************************************************)
(* The shape of the buffered group.                                        *)
(***************************************************************************)
\* The rows of the buffered batch at position i that its range covers.
RangeRows(i) ==
    {r \in 0..(buffered_data.batches[i].num_rows - 1) :
        /\ buffered_data.batches[i].range.start <= r
        /\ r < buffered_data.batches[i].range.end}

\* Row r of batch i and row q of batch j have, at every key column, two
\* nulls or two equal values.
SameKey(i, r, j, q) ==
    \A k \in Range(on) :
        LET l == buffered_data.batches[i].join_arrays[k][r + 1]
            m == buffered_data.batches[j].join_arrays[k][q + 1]
        IN  (l = NULL /\ m = NULL) \/ (l # NULL /\ m # NULL /\ l = m)

\* C31: the rows covered by the ranges of the batches of BufferedData share
\* one key under the fast equality, the head's range is not empty when
\* BufferedData is not, and every batch but the tail has its range ending at
\* its last row.
BufferedGroupShape ==
    /\ \A i, j \in Range(Len(buffered_data.batches)) :
        \A r \in RangeRows(i), q \in RangeRows(j) : SameKey(i, r, j, q)
    /\ Len(buffered_data.batches) > 0 =>
        buffered_data.batches[1].range.start < buffered_data.batches[1].range.end
    /\ \A i \in Range(Len(buffered_data.batches) - 1) :
        buffered_data.batches[i].range.end = buffered_data.batches[i].num_rows

\* A group goes over two batches, the tail holding a row of the next key
\* beyond its range, and the keys of the group are null.
GroupOverTwoBatchesReached ==
    /\ Len(buffered_data.batches) = 2
    /\ RangeRows(1) # {} /\ RangeRows(2) # {}
    /\ buffered_data.batches[2].range.end < buffered_data.batches[2].num_rows
    /\ buffered_data.batches[1].join_arrays[1][1] = NULL

(***************************************************************************)
(* The cursor of the streamed side.                                        *)
(***************************************************************************)
\* The batches the streamed input has returned so far.
StreamedPolled ==
    {streamed.items[k].batch :
        k \in {p \in Range(Len(streamed.items)) :
                p <= streamed.pos /\ streamed.items[p].kind = "Batch"}}

\* C32: whenever the streamed state is Ready the cursor idx is a row of the
\* current streamed batch, 0 <= idx < its number of rows; and a batch without
\* rows is never the current batch: the current batch is without rows only
\* before the first batch has been taken, and is afterwards a batch with rows
\* that the input has returned.
StreamedCursorInBatch ==
    /\ streamed_state = "Ready" =>
        /\ 0 <= streamed_batch.idx
        /\ streamed_batch.idx < num_rows(streamed_batch.batch)
    /\ num_rows(streamed_batch.batch) = 0 => streamed_batch_counter = 0
    /\ streamed_batch_counter > 0 => streamed_batch.batch \in StreamedPolled

\* The cursor is at the second row of a batch taken after the input has
\* returned a batch without rows.
CursorAfterEmptyBatchReached ==
    /\ state # "NoStream"
    /\ streamed_state = "Ready"
    /\ streamed_batch.idx = 1
    /\ \E b \in StreamedPolled : num_rows(b) = 0

(***************************************************************************)
(* What the Init state schedules.                                          *)
(***************************************************************************)
\* The queue of BufferedData as the scan sees it: which batches it holds, in
\* memory or spilled, with their rows, keys and ranges.
BufferedQueue ==
    [i \in Range(Len(buffered_data.batches)) |->
        [batch |-> buffered_data.batches[i].batch,
         spill_file |-> buffered_data.batches[i].spill_file,
         num_rows |-> buffered_data.batches[i].num_rows,
         join_arrays |-> buffered_data.batches[i].join_arrays,
         range |-> buffered_data.batches[i].range]]

\* A turn of the Init state that goes on to Polling.
InitTurn ==
    /\ state = "Init"
    /\ ~(streamed_state = "Exhausted" /\ buffered_state = "Exhausted")

\* C33 as stated: a turn of the Init state after Less or Equal, the streamed
\* side not exhausted, leaves the buffered state, buffered_joined and the
\* batches of BufferedData as they are, every field of every batch included;
\* a turn after Greater, the buffered side not exhausted, leaves the streamed
\* state, the streamed batch with its cursor and streamed_joined as they are.
InitLeavesOtherSide ==
    [][InitTurn =>
        /\ (current_ordering \in {"Less", "Equal"} /\ streamed_state # "Exhausted") =>
            UNCHANGED <<buffered_state, buffered_joined, buffered_data>>
        /\ (current_ordering = "Greater" /\ buffered_state # "Exhausted") =>
            UNCHANGED <<streamed_state, streamed_batch, streamed_joined>>]_vars

\* C33: a turn of the Init state schedules one side.  After Less or Equal,
\* the streamed side not exhausted, it sets the streamed state to Init and
\* streamed_joined to false unless it returns a batch or an error first, and
\* leaves the buffered state, buffered_joined and the queue of BufferedData
\* (its batches, their rows, keys and ranges) as they are; the freeze of a
\* filtered join may only empty null_joined and update the not-matched map of
\* its batches.  After Greater, the buffered side not exhausted, it sets the
\* buffered state to Init and buffered_joined to false and leaves the
\* streamed state, the streamed batch with its cursor and streamed_joined as
\* they are.
InitSchedulesOneSide ==
    [][InitTurn =>
        /\ (current_ordering \in {"Less", "Equal"} /\ streamed_state # "Exhausted") =>
            /\ UNCHANGED <<buffered_state, buffered_joined>>
            /\ BufferedQueue' = BufferedQueue
            /\ buffered_data'.scanning_batch_idx = buffered_data.scanning_batch_idx
            /\ buffered_data'.scanning_offset = buffered_data.scanning_offset
            /\ ret' = "continue" =>
                streamed_state' = "Init" /\ streamed_joined' = FALSE
        /\ (current_ordering = "Greater" /\ buffered_state # "Exhausted") =>
            /\ UNCHANGED <<streamed_state, streamed_batch, streamed_joined>>
            /\ buffered_state' = "Init" /\ buffered_joined' = FALSE]_vars

\* The Init state of a filtered Full join has been left after Equal with the
\* streamed side scheduled, the buffered side Ready, and the not-matched map
\* of a batch of BufferedData written.
StreamedScheduledReached ==
    /\ state = "Polling" /\ ret = "continue"
    /\ join_type = "Full" /\ is_some(filter)
    /\ current_ordering = "Equal"
    /\ streamed_state = "Init" /\ buffered_state = "Ready"
    /\ \E i \in Range(Len(buffered_data.batches)) :
        buffered_data.batches[i].join_filter_not_matched_map # <<>>

(***************************************************************************)
(* The columns of the rows of a filtered join.                             *)
(***************************************************************************)
\* What a filtered join of the given type may return for streamed row i: for
\* Left and Right the row joined to a buffered row of its key or to nulls,
\* for LeftMark the row and a mark, for Semi and Anti the row alone.
RowsFor(i) ==
    IF join_type \in {"Left", "Right"}
    THEN {JoinedRow(StreamedRows[i], NullRow(buffered_schema))}
            \cup {JoinedRow(StreamedRows[i], BufferedRows[j]) :
                    j \in {k \in Range(Len(BufferedRows)) : Passes(i, k)}}
    ELSE IF join_type = "LeftMark"
    THEN {StreamedRows[i] \o <<HasMatch(i)>>}
    ELSE {StreamedRows[i]}

\* C34: a filtered join of two inputs of any numbers of columns does not
\* fail, and every row it returns has exactly the columns of the output
\* schema: for Left, Right and LeftMark a row rejected by the filter keeps
\* the values of its streamed columns with every buffered column null (the
\* mark false), and a row of a Semi or Anti join is the streamed row.
FilteredRowsFitSchema ==
    (is_some(filter) /\ join_type \in FilteredTypes \ {"Full"}) =>
        /\ ret # "err"
        /\ \A p \in Range(Len(EmittedRows)) :
            /\ Len(EmittedRows[p]) = schema
            /\ \E i \in Range(Len(StreamedRows)) : EmittedRows[p] \in RowsFor(i)
        /\ (Finished /\ join_type \in {"Left", "Right", "LeftMark"}) =>
            \A i \in Range(Len(StreamedRows)) :
                ~HasMatch(i) => \E p \in Range(Len(EmittedRows)) :
                                    EmittedRows[p] \in RowsFor(i)

\* The same for inputs of equal numbers of columns.
EqualWidthRowsFitSchema == streamed_schema = buffered_schema => FilteredRowsFitSchema

(***************************************************************************)
(* Pending pairs and the batches they refer to.                            *)
(***************************************************************************)
\* The pairs appended to the current streamed batch and not yet frozen.
PendingPairs == PendingPairsOf(streamed_batch)

\* The rows frozen into staging and not yet taken out of it.
StagedRowCount ==
    SumOf([b \in Range(Len(staging_output_record_batches.batches)) |->
            num_rows(staging_output_record_batches.batches[b])])

\* The buffered batches with rows that the buffered input has returned so
\* far: each of them is pushed to BufferedData when no allocation fails.
BufferedPushed ==
    Cardinality({p \in Range(Len(buffered.items)) :
                    /\ p <= buffered.pos
                    /\ buffered.items[p].kind = "Batch"
                    /\ num_rows(buffered.items[p].batch) > 0})

\* The buffered batches popped from BufferedData so far.
BufferedPopped == BufferedPushed - Len(buffered_data.batches)

\* Every pending chunk refers to nulls or to a batch that BufferedData holds
\* and to rows of it, and to rows of the current streamed batch.
PendingChunksValid ==
    \A c \in Range(Len(streamed_batch.output_indices)) :
        LET chunk == streamed_batch.output_indices[c]
        IN  /\ chunk.buffered_batch_idx # NULL =>
                /\ 0 <= chunk.buffered_batch_idx
                /\ chunk.buffered_batch_idx < Len(buffered_data.batches)
                /\ \A k \in Range(Len(chunk.buffered_indices)) :
                    chunk.buffered_indices[k] # NULL =>
                        chunk.buffered_indices[k] <
                            buffered_data.batches[chunk.buffered_batch_idx + 1].num_rows
            /\ \A k \in Range(Len(chunk.streamed_indices)) :
                chunk.streamed_indices[k] < num_rows(streamed_batch.batch)

\* C35: the current streamed batch is replaced, and a buffered batch is
\* popped, only after every pending pair has been frozen into staging: the
\* step stages at least one row per pending pair and leaves no pending pair,
\* so that no chunk lives through a change of the batches its indices denote;
\* and every pending chunk refers to a batch that BufferedData holds.
PairsFrozenBeforeBatchesGo ==
    /\ [](state # "NoStream" => PendingChunksValid)
    /\ [][(streamed_batch_counter' # streamed_batch_counter
                \/ BufferedPopped' # BufferedPopped) =>
            /\ StagedRowCount' >= StagedRowCount + PendingPairs
            /\ streamed_batch'.output_indices = <<>>]_vars

\* A buffered batch has just been popped, the streamed batch staying, and
\* the pairs that were pending on the streamed batch are staged.
PoppedAfterFreezeReached ==
    /\ BufferedPopped > 0
    /\ streamed_state = "Ready" /\ streamed_batch.idx > 0
    /\ state = "JoinOutput" /\ current_ordering = "Equal"
    /\ StagedRowCount > 0
    /\ streamed_batch.output_indices = <<>>

(***************************************************************************)
(* Pending results of the inputs.                                          *)
(***************************************************************************)
NotPending(item) == item.kind # "Pending"

\* What an input stream has yet to return, its Pending results left out.
RestOf(up) == SelectSeq(SubSeq(up.items, up.pos + 1, Len(up.items)), NotPending)

\* The input stream that returns the same without any Pending from now on.
WithoutPending(up) == [up EXCEPT !.items = SubSeq(up.items, 1, up.pos) \o RestOf(up)]

\* The state of the join: everything of the stream but how far the scripts
\* of its inputs have been read.
JoinState(s) ==
    [streamed_rest |-> RestOf(s.streamed), streamed_ended |-> s.streamed.ended,
     streamed_batch |-> s.streamed_batch, streamed_joined |-> s.streamed_joined,
     streamed_state |-> s.streamed_state,
     buffered_rest |-> RestOf(s.buffered), buffered_ended |-> s.buffered.ended,
     buffered_data |-> s.buffered_data, buffered_joined |-> s.buffered_joined,
     buffered_state |-> s.buffered_state, state |-> s.state,
     staging_output_record_batches |-> s.staging_output_record_batches,
     output |-> s.output, output_size |-> s.output_size,
     current_ordering |-> s.current_ordering, join_metrics |-> s.join_metrics,
     reservation |-> s.reservation, pool |-> s.pool,
     streamed_batch_counter |-> s.streamed_batch_counter]

\* The turn of the loop from stream s, taken again after every Pending it
\* returns, the task being woken: what it returns at last and the state of
\* the join it leaves.
RECURSIVE PolledThroughPending(_, _)
PolledThroughPending(s, fuel) ==
    Let(poll_next_step(s), LAMBDA r :
        IF r.ret = "pending" /\ fuel > 0
        THEN PolledThroughPending(r.stream, fuel - 1)
        ELSE [ret |-> r.ret, out |-> r.stream.out, join |-> JoinState(r.stream)])

\* The run over the same inputs when neither returns Pending.
NoPendingRun ==
    RunToEnd([Fresh(pool.answers) EXCEPT
                !.streamed = WithoutPending(@), !.buffered = WithoutPending(@)],
             <<>>, MaxSteps)

\* C36: a poll that meets Pending results of the inputs and is taken again
\* returns what the poll returns when the inputs return the same without the
\* Pending results, and leaves the same state of the join (cursors, staged
\* pairs, joined flags, reservation, counters); a join that has ended has
\* returned the batches of the run in which no input returns Pending.
PendingChangesNoJoinState ==
    /\ (state = "Polling" /\ ret # "none") =>
        PolledThroughPending(Self, MaxSteps)
            = PolledThroughPending([Self EXCEPT !.streamed = WithoutPending(@),
                                                !.buffered = WithoutPending(@)],
                                   MaxSteps)
    /\ Finished =>
        /\ NoPendingRun.ret = "none"
        /\ emitted = NoPendingRun.emitted

\* A join has ended with batches returned, both inputs having returned
\* Pending after a batch.
PendingOnBothSidesReached ==
    /\ Finished /\ Len(emitted) >= 1
    /\ \E i \in Range(Len(streamed.items)) :
        i > 1 /\ streamed.items[i].kind = "Pending"
    /\ \E i \in Range(Len(buffered.items)) :
        i > 1 /\ buffered.items[i].kind = "Pending"

(***************************************************************************)
(* Polls of an input that has ended.                                       *)
(***************************************************************************)
\* C37: an input that has returned the end of its stream is not polled
\* again, neither the streamed nor the buffered one.
InputsNotPolledAfterEnd ==
    /\ ~streamed.polled_after_end
    /\ ~buffered.polled_after_end

\* The same of the streamed input alone.
StreamedNotPolledAfterEnd == ~streamed.polled_after_end

(***************************************************************************)
(* The counters of the output.                                             *)
(***************************************************************************)
\* C38: when the stream has returned the end of the stream, output_batches
\* is the number of batches it has returned and output_rows the number of
\* rows in them, for every join type without or with filter.
OutputCountersMatchReturned ==
    Finished =>
        /\ join_metrics.output_batches = Len(emitted)
        /\ join_metrics.output_rows = Len(EmittedRows)

\* The same of the joins that do not filter their output.
UnfilteredOutputCounted ==
    ~(is_some(filter) /\ join_type \in FilteredTypes) => OutputCountersMatchReturned

(***************************************************************************)
(* The chunks of append_output_pair.                                       *)
(***************************************************************************)
\* The step is a call of append_output_pair: one more pair is pending.
PairAppended ==
    PendingPairsOf(streamed_batch') = PendingPairsOf(streamed_batch) + 1

\* The call has started a chunk.
ChunkStarted ==
    Len(streamed_batch'.output_indices) = Len(streamed_batch.output_indices) + 1

\* The pair of the call is the last of the last chunk, which is of the
\* call's buffered batch, and the chunks and pairs before it are as they
\* were.
PairInLastChunk ==
    LET before == streamed_batch.output_indices
        after == streamed_batch'.output_indices
        chunk == after[Len(after)]
        n == Len(chunk.streamed_indices)
    IN  /\ chunk.buffered_batch_idx = call'[1].buffered_batch_idx
        /\ Len(chunk.buffered_indices) = n
        /\ chunk.streamed_indices[n] = streamed_batch.idx
        /\ chunk.buffered_indices[n] = call'[1].buffered_idx
        /\ IF ChunkStarted
           THEN n = 1 /\ SubSeq(after, 1, Len(after) - 1) = before
           ELSE /\ Len(after) = Len(before)
                /\ SubSeq(after, 1, Len(after) - 1) = SubSeq(before, 1, Len(before) - 1)
                /\ chunk.buffered_batch_idx = before[Len(before)].buffered_batch_idx
                /\ SubSeq(chunk.streamed_indices, 1, n - 1)
                    = before[Len(before)].streamed_indices
                /\ SubSeq(chunk.buffered_indices, 1, n - 1)
                    = before[Len(before)].buffered_indices

\* Within every chunk the streamed indices do not decrease.
StreamedIndicesOrdered ==
    \A c \in Range(Len(streamed_batch.output_indices)) :
        LET si == streamed_batch.output_indices[c].streamed_indices
        IN  \A k \in Range(Len(si) - 1) : si[k] <= si[k + 1]

\* C39 as stated: append_output_pair starts a chunk exactly when the buffered
\* batch of the pair differs from that of the pair appended before it (or no
\* pair was appended before); the pair goes to a chunk of its buffered batch
\* and the streamed indices of a chunk do not decrease.
ChunkStartsIffTargetChanges ==
    /\ [](state = "NoStream" => StreamedIndicesOrdered)
    /\ [][PairAppended =>
            /\ ChunkStarted <=>
                (is_none(call)
                    \/ call'[1].buffered_batch_idx # call[1].buffered_batch_idx)
            /\ PairInLastChunk]_vars

\* C39: append_output_pair starts a chunk exactly when no chunk is pending
\* (no pair was appended yet, or the chunks have been frozen and cleared) or
\* the buffered batch of the pair differs from that of the pair appended
\* before it; the pair goes to the last chunk, which is of its buffered
\* batch, and the streamed indices of a chunk do not decrease.
ChunkStartsIffNonePendingOrTargetChanges ==
    /\ [](state = "NoStream" => StreamedIndicesOrdered)
    /\ [][PairAppended =>
            /\ ChunkStarted <=>
                (Len(streamed_batch.output_indices) = 0
                    \/ (is_some(call)
                        /\ call'[1].buffered_batch_idx # call[1].buffered_batch_idx))
            /\ PairInLastChunk]_vars

\* Two chunks are pending: one of two pairs of different streamed rows with
\* rows of a buffered batch, then one of a pair with nulls.
TwoChunksReached ==
    /\ state = "NoStream"
    /\ Len(streamed_batch.output_indices) = 2
    /\ streamed_batch.output_indices[1].buffered_batch_idx = 0
    /\ streamed_batch.output_indices[1].streamed_indices = <<0, 1>>
    /\ streamed_batch.output_indices[2].buffered_batch_idx = NULL
    /\ streamed_batch.output_indices[2].buffered_indices = <<NULL>>

(***************************************************************************)
(* compare_join_arrays with its arguments exchanged.                       *)
(***************************************************************************)
\* What compare_join_arrays returns for the same two rows the other way
\* round.
ComparedBack ==
    compare_join_arrays(call[1].right_arrays, call[1].right,
                        call[1].left_arrays, call[1].left,
                        call[1].sort_options, call[1].null_equality)

\* The comparison reaches a key position at which both values are null: the
\* values at every position before it are non-null and equal.
ReachesTwoNulls ==
    \E k \in Range(Len(call[1].sort_options)) :
        /\ LeftKey(k) = NULL /\ RightKey(k) = NULL
        /\ \A j \in Range(k - 1) :
            LeftKey(j) # NULL /\ RightKey(j) # NULL /\ LeftKey(j) = RightKey(j)

\* C40: under NullEqualsNull, and under NullEqualsNothing when the comparison
\* reaches no key position at which both values are null, compare_join_arrays
\* of two rows is the reverse of compare_join_arrays of the same rows
\* exchanged: Less for Greater, Greater for Less, Equal for Equal.
CompareIsAntisymmetric ==
    (Compared("compare_join_arrays")
        /\ (call[1].null_equality = "NullEqualsNull" \/ ~ReachesTwoNulls)) =>
        /\ result[1] = "Less" <=> ComparedBack = "Greater"
        /\ result[1] = "Greater" <=> ComparedBack = "Less"
        /\ result[1] = "Equal" <=> ComparedBack = "Equal"

\* Under NullEqualsNothing two rows have been compared whose first keys are
\* a null and a value and whose second keys are both null: the comparison
\* ends at the first position.
CompareEndsBeforeTwoNullsReached ==
    /\ Compared("compare_join_arrays")
    /\ call[1].null_equality = "NullEqualsNothing"
    /\ Len(call[1].sort_options) = 2
    /\ LeftKey(1) = NULL /\ RightKey(1) # NULL
    /\ LeftKey(2) = NULL /\ RightKey(2) = NULL
    /\ result[1] = "Less" /\ ComparedBack = "Greater"

\* Under NullEqualsNothing the comparison of two rows that reaches two nulls
\* is Less both ways.
TwoNullsLessBothWays ==
    (Compared("compare_join_arrays") /\ call[1].null_equality = "NullEqualsNothing"
        /\ ReachesTwoNulls) =>
        result[1] = "Less" /\ ComparedBack = "Less"

=============================================================================
